---------------------------- MODULE Spec2Model ----------------------------
(***************************************************************************)
(* Verification model of the figure scripts of fc-benten-applsci.          *)
(*                                                                         *)
(* The repository is a set of independent scripts.  Each script that the   *)
(* checked properties are about is modelled as its own state machine over  *)
(* its own group of variables, with its own specification:                 *)
(*                                                                         *)
(*   SpecShirley  shirley_background_correction of haxpes_pt4f.py          *)
(*   SpecPeaks    peak detection and parameter seeding of pdf_tr_fit.py    *)
(*   SpecFit      the whole body of pdf_tr_fit.py                          *)
(*   SpecParse    the line parsers of the text-reading scripts             *)
(*   SpecFilter   the line filter of haxpes_pt4f.py and haxpes_vb.py       *)
(*   SpecNormalize  the normalization of an intensity series to its peak   *)
(*   SpecCal      the energy offset of haxpes_energy_calibration.py        *)
(*   SpecPdfData  scale and offset factors of pdf_data.py                  *)
(*   SpecOrder    the reads, plots and the save of every script            *)
(*   SpecChir     the figure of xafs_chir.py                               *)
(*   SpecTransition  the transition plots of the fcbenten scripts          *)
(*                                                                         *)
(* Floating-point arrays are modelled in fixed point: a value v is the     *)
(* integer v * Scale, and a quotient is rounded to the nearest grid point. *)
(***************************************************************************)
EXTENDS Integers, Sequences, FiniteSets, TLC

VARIABLES
    \* ---- haxpes_pt4f.py: shirley_background_correction ----
    sh_pc,              \* position in the function
    binding_energy,     \* argument: sequence of energies
    intensity,          \* argument: sequence of intensities (real units)
    x_min, x_max,       \* arguments: anchor energies
    max_iters,          \* argument: iteration cap
    idx_min, idx_max,   \* anchor indices (1-based)
    bg,                 \* background array, fixed point
    finite,             \* FALSE once k is inf/nan (division by zero)
    iter_count,         \* loop variable of the for loop (0-based), -1 before
    tests,              \* history: result of the convergence test, per iteration
    warned,             \* warnings.warn was called
    corrected_intensity, \* return value, fixed point
    \* ---- pdf_tr_fit.py: module body (lengths in units of 0.01) ----
    fit_pc,             \* the step the script is about to run
    file_y,             \* y column of ./data/pdf_T_r.txt, one row per grid point
    x, y,               \* data arrays after loading
    peak_find_range_x_min, peak_find_range_x_max,
    peak_find_distance_min, peak_used_count, peak_find_count_max,
    x_valid, y_valid,   \* samples inside the open detection range
    peaks,              \* find_peaks result: ascending indices into y_valid
    selected_peaks,     \* x positions seeding the Gaussians
    initial_params, lower_bounds, upper_bounds,
    params,             \* result.x
    errors,             \* standard errors: "est" (a number) or "nan" per entry
    fitted_peaks,       \* one record per fitted Gaussian
    hatch_i,            \* enumerate index of the hatch loop
    hatches,            \* indices i for which fill_between was called
    stdout,             \* messages printed
    png_written,        \* number of times savefig wrote the figure
    fit_calls,          \* number of calls of least_squares
    raised,             \* history: steps in which an exception was raised
    \* ---- the line parsers of the text-reading scripts ----
    parse_pc,           \* "read" while in the loop over the lines
    script,             \* the script whose parser runs
    file_lines,         \* the data lines of the input file
    line_no,            \* 1-based index of the line the loop is about to read
    parsed,             \* the lists the loop appends to
    parse_exc,          \* the exception that left the parser, or "none"
    has_tag,            \* haxpes_energy_calibration: tag in vdata
    nan_cells,          \* haxpes: cells of the DataFrame filled with NaN
    \* ---- haxpes_pt4f.py / haxpes_vb.py: preprocessing of one input file ----
    filter_pc,          \* the step the loop body is about to run
    filter_script,      \* the script whose loop body runs
    lines,              \* file.readlines(): each line a sequence of characters
    data_lines,         \* the lines kept by the filter
    data_idx,           \* history: positions in lines of the kept lines
    converted,          \* history: the lines that float() was applied to
    filter_exc,         \* the exception that left the conversion, or "none"
    \* ---- normalization of an intensity series to its peak value ----
    norm_pc,            \* "normalize" before the statement, "done" or "raised" after
    norm_site,          \* the script whose normalization statement runs
    series,             \* the intensity series before normalization
    normalized,         \* the series after normalization, fixed point
    norm_finite,        \* FALSE when the division gave inf or nan
    \* ---- haxpes_energy_calibration.py: energy offset (y in units of 0.05) ----
    cal_pc,             \* the step the script is about to run
    xarray,             \* energies of the target series
    yarray,             \* normalized intensities of the target series
    xarray_ref,         \* energies of the reference series
    yarray_ref,         \* normalized intensities of the reference series
    leading_energy_target,\* leading energy of the target series
    leading_energy_ref, \* leading energy of the reference series
    energy_offset,      \* leading_energy_ref - leading_energy_target
    xarray_corr,        \* energies of the corrected target series
    \* ---- pdf_data.py: scale and offset factors of the detector segments ----
    pdf_pc,             \* the step the script is about to run
    pdf_i,              \* the segment the loop of line 128 is about to handle
    twotheta,           \* per segment, the Twotheta column
    raw_count,          \* per segment, the Count/I0 column of raw_data
    bkg_count,          \* per segment, the Count/I0 column of background_data
    scale_factors,      \* scale factor of every segment
    offset_bkg_factors, \* background offset of every segment
    x_range,            \* plotted range of every segment
    \* ---- every script: the order of its reads, plots and its save ----
    order_state,        \* whether the script runs, has ended or has raised
    order_script,       \* the script that runs
    order_pc,           \* position of the next call of the script
    events,             \* the reads, plots, saves and shows done so far
    \* ---- xafs_chir.py: the plotted curve and the marks of the window ----
    chir_pc,            \* the step the script is about to run
    chir_rows,          \* the data lines of the input file
    chir_line,          \* number of the next line to read
    r_values,           \* the list r
    chir_values,        \* the list chir
    plotted_curve,      \* the points of the curve drawn on the figure
    window_marks,       \* the radial distances marked on the figure
    \* ---- fcbenten_lattice_strain.py, fcbenten_particle_size.py: the transition plot ----
    tr_pc,              \* the step the script is about to run
    tr_script,          \* the script that runs
    tr_rows,            \* the rows of the sheet 'data'
    has_width,          \* whether the sheet has the column SAXS_d_width
    todo,               \* the samples the loop has still to visit
    drawn_arrows,       \* the arrows drawn by ax.annotate
    drawn_points,       \* the points drawn by ax.scatter
    drawn_errorbars     \* the error bars drawn by ax.errorbar

shVars == <<sh_pc, binding_energy, intensity, x_min, x_max, max_iters,
            idx_min, idx_max, bg, finite, iter_count, tests, warned,
            corrected_intensity>>

fitVars == <<fit_pc, file_y, x, y, peak_find_range_x_min, peak_find_range_x_max,
             peak_find_distance_min, peak_used_count, peak_find_count_max,
             x_valid, y_valid, peaks, selected_peaks, initial_params,
             lower_bounds, upper_bounds, params, errors, fitted_peaks, hatch_i,
             hatches, stdout, png_written, fit_calls, raised>>

parseVars == <<parse_pc, script, file_lines, line_no, parsed, parse_exc,
               has_tag, nan_cells>>

filterVars == <<filter_pc, filter_script, lines, data_lines, data_idx, converted, filter_exc>>

normVars == <<norm_pc, norm_site, series, normalized, norm_finite>>

calVars == <<cal_pc, xarray, yarray, xarray_ref, yarray_ref, leading_energy_target, leading_energy_ref, energy_offset, xarray_corr>>

pdfVars == <<pdf_pc, pdf_i, twotheta, raw_count, bkg_count, scale_factors, offset_bkg_factors, x_range>>

orderVars == <<order_state, order_script, order_pc, events>>

chirVars == <<chir_pc, chir_rows, chir_line, r_values, chir_values, plotted_curve, window_marks>>

transitionVars == <<tr_pc, tr_script, tr_rows, has_width, todo, drawn_arrows, drawn_points, drawn_errorbars>>

vars == <<shVars, fitVars, parseVars, filterVars, normVars, calVars, pdfVars, orderVars, chirVars, transitionVars>>

-----------------------------------------------------------------------------
(* The scripts are independent programs: while one runs, the variables of *)
(* the others keep the values below.                                       *)

ShirleyIdle ==
    /\ sh_pc = "idle"
    /\ binding_energy = <<>>
    /\ intensity = <<>>
    /\ x_min = 0
    /\ x_max = 0
    /\ max_iters = 0
    /\ idx_min = 0
    /\ idx_max = 0
    /\ bg = <<>>
    /\ finite = TRUE
    /\ iter_count = -1
    /\ tests = <<>>
    /\ warned = FALSE
    /\ corrected_intensity = <<>>

\* the variables of pdf_tr_fit.py while another script is the one running
FitIdle ==
    /\ fit_pc = "idle"
    /\ file_y = <<>>
    /\ x = <<>>
    /\ y = <<>>
    /\ peak_find_range_x_min = 0
    /\ peak_find_range_x_max = 0
    /\ peak_find_distance_min = 0
    /\ peak_used_count = 0
    /\ peak_find_count_max = 0
    /\ x_valid = <<>>
    /\ y_valid = <<>>
    /\ peaks = <<>>
    /\ selected_peaks = <<>>
    /\ initial_params = <<>>
    /\ lower_bounds = <<>>
    /\ upper_bounds = <<>>
    /\ params = <<>>
    /\ errors = <<>>
    /\ fitted_peaks = <<>>
    /\ hatch_i = 0
    /\ hatches = <<>>
    /\ stdout = <<>>
    /\ png_written = 0
    /\ fit_calls = 0
    /\ raised = <<>>

ParseIdle ==
    /\ parse_pc = "idle"
    /\ script = "none"
    /\ file_lines = <<>>
    /\ line_no = 0
    /\ parsed = <<>>
    /\ parse_exc = "none"
    /\ has_tag = FALSE
    /\ nan_cells = 0

FilterIdle ==
    /\ filter_pc = "idle"
    /\ filter_script = "none"
    /\ lines = <<>>
    /\ data_lines = <<>>
    /\ data_idx = <<>>
    /\ converted = <<>>
    /\ filter_exc = "none"

NormIdle ==
    /\ norm_pc = "idle"
    /\ norm_site = "none"
    /\ series = <<>>
    /\ normalized = <<>>
    /\ norm_finite = TRUE

CalIdle ==
    /\ cal_pc = "idle"
    /\ xarray = <<>>
    /\ yarray = <<>>
    /\ xarray_ref = <<>>
    /\ yarray_ref = <<>>
    /\ leading_energy_target = 0
    /\ leading_energy_ref = 0
    /\ energy_offset = 0
    /\ xarray_corr = <<>>

PdfDataIdle ==
    /\ pdf_pc = "idle"
    /\ pdf_i = 0
    /\ twotheta = <<>>
    /\ raw_count = <<>>
    /\ bkg_count = <<>>
    /\ scale_factors = <<>>
    /\ offset_bkg_factors = <<>>
    /\ x_range = <<>>

OrderIdle ==
    /\ order_state = "idle"
    /\ order_script = ""
    /\ order_pc = 0
    /\ events = <<>>

ChirIdle ==
    /\ chir_pc = "idle"
    /\ chir_rows = <<>>
    /\ chir_line = 0
    /\ r_values = <<>>
    /\ chir_values = <<>>
    /\ plotted_curve = <<>>
    /\ window_marks = {}

TransitionIdle ==
    /\ tr_pc = "idle"
    /\ tr_script = ""
    /\ tr_rows = <<>>
    /\ has_width = FALSE
    /\ todo = <<>>
    /\ drawn_arrows = <<>>
    /\ drawn_points = <<>>
    /\ drawn_errorbars = <<>>

\* the variables of every script other than the named one
notShirley == <<fitVars, parseVars, filterVars, normVars, calVars, pdfVars, orderVars, chirVars, transitionVars>>
notFit == <<shVars, parseVars, filterVars, normVars, calVars, pdfVars, orderVars, chirVars, transitionVars>>
notParse == <<shVars, fitVars, filterVars, normVars, calVars, pdfVars, orderVars, chirVars, transitionVars>>
notFilter == <<shVars, fitVars, parseVars, normVars, calVars, pdfVars, orderVars, chirVars, transitionVars>>
notNorm == <<shVars, fitVars, parseVars, filterVars, calVars, pdfVars, orderVars, chirVars, transitionVars>>
notCal == <<shVars, fitVars, parseVars, filterVars, normVars, pdfVars, orderVars, chirVars, transitionVars>>
notPdfData == <<shVars, fitVars, parseVars, filterVars, normVars, calVars, orderVars, chirVars, transitionVars>>
notOrder == <<shVars, fitVars, parseVars, filterVars, normVars, calVars, pdfVars, chirVars, transitionVars>>
notChir == <<shVars, fitVars, parseVars, filterVars, normVars, calVars, pdfVars, orderVars, transitionVars>>
notTransition == <<shVars, fitVars, parseVars, filterVars, normVars, calVars, pdfVars, orderVars, chirVars>>

\* every script other than the named one is idle
OnlyShirleyRuns == FitIdle /\ ParseIdle /\ FilterIdle /\ NormIdle /\ CalIdle /\ PdfDataIdle /\ OrderIdle /\ ChirIdle /\ TransitionIdle
OnlyFitRuns == ShirleyIdle /\ ParseIdle /\ FilterIdle /\ NormIdle /\ CalIdle /\ PdfDataIdle /\ OrderIdle /\ ChirIdle /\ TransitionIdle
OnlyParseRuns == ShirleyIdle /\ FitIdle /\ FilterIdle /\ NormIdle /\ CalIdle /\ PdfDataIdle /\ OrderIdle /\ ChirIdle /\ TransitionIdle
OnlyFilterRuns == ShirleyIdle /\ FitIdle /\ ParseIdle /\ NormIdle /\ CalIdle /\ PdfDataIdle /\ OrderIdle /\ ChirIdle /\ TransitionIdle
OnlyNormRuns == ShirleyIdle /\ FitIdle /\ ParseIdle /\ FilterIdle /\ CalIdle /\ PdfDataIdle /\ OrderIdle /\ ChirIdle /\ TransitionIdle
OnlyCalRuns == ShirleyIdle /\ FitIdle /\ ParseIdle /\ FilterIdle /\ NormIdle /\ PdfDataIdle /\ OrderIdle /\ ChirIdle /\ TransitionIdle
OnlyPdfDataRuns == ShirleyIdle /\ FitIdle /\ ParseIdle /\ FilterIdle /\ NormIdle /\ CalIdle /\ OrderIdle /\ ChirIdle /\ TransitionIdle
OnlyOrderRuns == ShirleyIdle /\ FitIdle /\ ParseIdle /\ FilterIdle /\ NormIdle /\ CalIdle /\ PdfDataIdle /\ ChirIdle /\ TransitionIdle
OnlyChirRuns == ShirleyIdle /\ FitIdle /\ ParseIdle /\ FilterIdle /\ NormIdle /\ CalIdle /\ PdfDataIdle /\ OrderIdle /\ TransitionIdle
OnlyTransitionRuns == ShirleyIdle /\ FitIdle /\ ParseIdle /\ FilterIdle /\ NormIdle /\ CalIdle /\ PdfDataIdle /\ OrderIdle /\ ChirIdle

-----------------------------------------------------------------------------
(* Bounds of the model *)

NumSamples == 3  \* number of samples of a spectrum
MaxI == 2       \* largest intensity value of an input spectrum
MaxIters == 6   \* largest iteration cap passed as max_iters
Scale == 16     \* fixed-point grid: 1/Scale is the resolution of an array value
NumPoints == 7  \* number of rows of the T(r) data file
MaxY == 2       \* largest y value of the T(r) data file
XStep == 50     \* grid step of the T(r) data file, in units of 0.01
MaxPeakCount == 2   \* largest value of peak_find_count_max and peak_used_count
MaxLines == 2   \* largest number of data lines of a parsed text file
MaxFields == 4  \* largest number of fields of a data line
MaxChars == 2   \* largest number of characters of a line of a raw input file
EnergyStep == 3 \* spacing of the energies of a HAXPES series
MaxShift == 1   \* largest displacement of the target energies against the reference
MaxCount == 1   \* largest intensity of a point of a detector segment
MaxRows == 4    \* largest number of rows of the sheet of the transition plots

(* eps=1e-7, the default of shirley_background_correction, as EpsNum/EpsDen *)
EpsNum == 1
EpsDen == 10000000

-----------------------------------------------------------------------------
(* Arithmetic helpers *)

Abs(v) == IF v < 0 THEN -v ELSE v

\* a / b rounded to the nearest integer (b # 0)
RoundDiv(p, q) ==
    IF q > 0 THEN (2 * p + q) \div (2 * q)
             ELSE (2 * (-p) + (-q)) \div (2 * (-q))

\* np.cumsum(s)[i]
RECURSIVE CumSum(_, _)
CumSum(s, i) == IF i = 0 THEN 0 ELSE CumSum(s, i - 1) + s[i]

\* np.max(np.abs(p - q)) over two arrays of the same length
RECURSIVE MaxAbsDiff(_, _, _)
MaxAbsDiff(p, q, i) ==
    IF i = 0 THEN 0
    ELSE LET r == MaxAbsDiff(p, q, i - 1)
             d == Abs(p[i] - q[i])
         IN  IF d > r THEN d ELSE r

\* np.argmin(np.abs(arr - x)): the first index of the smallest distance
ArgMinAbs(arr, target) ==
    CHOOSE i \in 1..Len(arr) :
        /\ \A j \in 1..Len(arr) : Abs(arr[i] - target) <= Abs(arr[j] - target)
        /\ \A j \in 1..(i - 1) : Abs(arr[j] - target) > Abs(arr[i] - target)

-----------------------------------------------------------------------------
(* haxpes_pt4f.py: shirley_background_correction *)

RECURSIVE ScaledUpTo(_, _)
ScaledUpTo(s, n) ==
    IF n = 0 THEN <<>> ELSE Append(ScaledUpTo(s, n - 1), s[n] * Scale)

\* an array of real values on the fixed-point grid
Scaled(s) == ScaledUpTo(s, Len(s))

\* denominator of k: cumulative_intensity[idx_min] - cumulative_intensity[idx_max]
KDen(inten, a, b) == CumSum(Scaled(inten), a) - CumSum(Scaled(inten), b)

\* new_bg[i] of lines 107-112, for a finite k
NewBgAt(bgv, inten, a, b, i) ==
    LET si == Scaled(inten)
        i_left == si[a]
        i_right == si[b]
    IN  i_right + RoundDiv((i_left - i_right)
                              * (CumSum(si, a) - CumSum(si, i)
                                 - CumSum(bgv, a) + CumSum(bgv, i)),
                           KDen(inten, a, b))

\* the inner loop of lines 106-112 over i = 0 .. n-1
RECURSIVE NewBgUpTo(_, _, _, _, _)
NewBgUpTo(bgv, inten, a, b, n) ==
    IF n = 0 THEN <<>>
    ELSE Append(NewBgUpTo(bgv, inten, a, b, n - 1), NewBgAt(bgv, inten, a, b, n))

\* one evaluation of new_bg from bg (lines 98-112)
NewBg(bgv, inten, a, b) == NewBgUpTo(bgv, inten, a, b, Len(inten))

\* np.max(np.abs(new_bg - bg)) < eps
Converged(nb, bgv) ==
    MaxAbsDiff(nb, bgv, Len(bgv)) <= (EpsNum * Scale - 1) \div EpsDen

\* the for loop ends: break, or range(max_iters) is exhausted
LoopExitsMutNoBreak(conv, it, mi) == it + 1 = mi

LoopExits(conv, it, mi) == conv \/ it + 1 = mi

\* line 120: if (iter_count + 1) == max_iters
WarnCondMutOffByOne(it, mi) == it = mi

WarnCond(it, mi) == it + 1 = mi

Zeros(n) == [i \in 1..n |-> 0]

Grid == [i \in 1..NumSamples |-> i]

\* the spectra passed in: NumSamples samples, or none at all
Spectra == [1..NumSamples -> 0..MaxI] \cup {<<>>}

-----------------------------------------------------------------------------
(* The line parsers of the text-reading scripts *)

\* A data line is the sequence of its fields after the script's own split;
\* a field is TRUE when float() accepts its text and FALSE when it does not
\* (a text such as "abc").  Comment lines and header lines, which every
\* script filters before parsing, are not part of file_lines.
RECURSIVE ShapesOfLen(_)
ShapesOfLen(n) ==
    IF n = 0 THEN {<<>>}
    ELSE {Append(s, b) : s \in ShapesOfLen(n - 1), b \in BOOLEAN}

\* the lines of the input files: at most one field that is not a number
LineShapes ==
    {s \in UNION {ShapesOfLen(n) : n \in 0..MaxFields} :
        Cardinality({j \in 1..Len(s) : ~s[j]}) <= 1}

RECURSIVE FilesOfLen(_)
FilesOfLen(n) ==
    IF n = 0 THEN {<<>>}
    ELSE {Append(f, s) : f \in FilesOfLen(n - 1), s \in LineShapes}

Files == UNION {FilesOfLen(n) : n \in 1..MaxLines}

\* float(parts[j]) for a numeric field j of line l: the number written there
FloatOf(l, j) == 10 * l + j

XafsScripts == {"xafs_norm", "xafs_chik", "xafs_chir", "xafs_chik_fit",
                "xafs_chir_fit"}
HaxpesScripts == {"haxpes_pt4f", "haxpes_vb"}
Scripts == XafsScripts \cup HaxpesScripts
              \cup {"haxpes_energy_calibration", "saxs_profile"}

\* the lists a script fills: one per column for the xafs scripts, one list
\* of rows or tuples for the others
EmptyLists(name) ==
    IF name \in {"xafs_chik_fit", "xafs_chir_fit"} THEN <<<<>>, <<>>, <<>>>>
    ELSE IF name \in XafsScripts THEN <<<<>>, <<>>>>
    ELSE <<<<>>>>

\* the statements lists[k].append(float(parts[idxs[k] - 1])) run in order,
\* from the k-th on, until one raises
RECURSIVE AppendFields(_, _, _, _, _)
AppendFields(lists, ln, l, idxs, k) ==
    IF k > Len(idxs) THEN [lists |-> lists, exc |-> "none"]
    ELSE IF idxs[k] > Len(ln) THEN [lists |-> lists, exc |-> "IndexError"]
    ELSE IF ~ln[idxs[k]] THEN [lists |-> lists, exc |-> "ValueError"]
    ELSE AppendFields([lists EXCEPT ![k] = Append(@, FloatOf(l, idxs[k]))],
                      ln, l, idxs, k + 1)

\* float() applied to the fields idxs of a line that has them all
AllNumeric(ln, idxs) == \A k \in 1..Len(idxs) : ln[idxs[k]]

RECURSIVE FloatsOf(_, _, _)
FloatsOf(l, idxs, k) ==
    IF k > Len(idxs) THEN <<>>
    ELSE <<FloatOf(l, idxs[k])>> \o FloatsOf(l, idxs, k + 1)

RECURSIVE UpTo(_)
UpTo(n) == IF n = 0 THEN <<>> ELSE Append(UpTo(n - 1), n)

InitShirley ==
    /\ OnlyShirleyRuns
    /\ sh_pc = "start"
    /\ intensity \in Spectra
    /\ binding_energy = [i \in 1..Len(intensity) |-> Grid[i]]
    /\ x_min \in 1..NumSamples
    /\ x_max \in 1..NumSamples
    /\ max_iters \in 1..MaxIters
    /\ idx_min = 0
    /\ idx_max = 0
    /\ bg = <<>>
    /\ finite = TRUE
    /\ iter_count = -1
    /\ tests = <<>>
    /\ warned = FALSE
    /\ corrected_intensity = <<>>

\* lines 78-94: anchors, swap, zero background; np.argmin of an empty array
\* raises ValueError
ShirleyEnter ==
    /\ sh_pc = "start"
    /\ IF Len(binding_energy) = 0
       THEN /\ sh_pc' = "raised"
            /\ UNCHANGED <<idx_min, idx_max, bg>>
       ELSE /\ LET a == ArgMinAbs(binding_energy, x_min)
                   b == ArgMinAbs(binding_energy, x_max)
               IN  /\ idx_min' = IF a > b THEN b ELSE a
                   /\ idx_max' = IF a > b THEN a ELSE b
            /\ bg' = Zeros(Len(intensity))
            /\ sh_pc' = "loop"
    /\ UNCHANGED <<binding_energy, intensity, x_min, x_max, max_iters, finite,
                   iter_count, tests, warned, corrected_intensity>>
    /\ UNCHANGED notShirley

\* lines 97-118: one iteration of the for loop
ShirleyIterate ==
    /\ sh_pc = "loop"
    /\ iter_count + 1 < max_iters
    /\ iter_count' = iter_count + 1
    /\ IF KDen(intensity, idx_min, idx_max) = 0
       THEN \* k is inf or nan: every entry of new_bg is inf or nan, and
            \* np.max(np.abs(new_bg - bg)) < eps is False
            /\ finite' = FALSE
            /\ tests' = Append(tests, FALSE)
            /\ bg' = bg
            /\ sh_pc' = IF LoopExits(FALSE, iter_count', max_iters)
                        THEN "after" ELSE "loop"
       ELSE LET nb == NewBg(bg, intensity, idx_min, idx_max)
                conv == Converged(nb, bg)
            IN  /\ finite' = finite
                /\ tests' = Append(tests, conv)
                /\ bg' = IF conv THEN bg ELSE nb
                /\ sh_pc' = IF LoopExits(conv, iter_count', max_iters)
                            THEN "after" ELSE "loop"
    /\ UNCHANGED <<binding_energy, intensity, x_min, x_max, max_iters,
                   idx_min, idx_max, warned, corrected_intensity>>
    /\ UNCHANGED notShirley

\* lines 120-130: warning, subtraction, return
ShirleyReturn ==
    /\ sh_pc = "after"
    /\ warned' = WarnCond(iter_count, max_iters)
    /\ corrected_intensity' =
           [i \in 1..Len(intensity) |-> Scaled(intensity)[i] - bg[i]]
    /\ sh_pc' = "done"
    /\ UNCHANGED <<binding_energy, intensity, x_min, x_max, max_iters,
                   idx_min, idx_max, bg, finite, iter_count, tests>>
    /\ UNCHANGED notShirley

NextShirley == ShirleyEnter \/ ShirleyIterate \/ ShirleyReturn

SpecShirley == InitShirley /\ [][NextShirley]_vars

-----------------------------------------------------------------------------
(* pdf_tr_fit.py: data, peak detection, initial parameters and bounds *)

\* Initial guesses (lines 138-141) and the per-Gaussian seeds and window
\* (lines 159, 166-167), in units of 0.01
rho_initial == 1
A_initial == -100
n_initial == 100
lambda_initial == 100
amp_initial == 100
sigma_initial == 10
centre_window == 10

\* an entry of lower_bounds / upper_bounds: a finite value, -np.inf or np.inf
Fin(v) == [inf |-> 0, val |-> v]
NegInf == [inf |-> -1, val |-> 0]
PosInf == [inf |-> 1, val |-> 0]

Range(s) == {s[i] : i \in 1..Len(s)}

\* p / q rounded up (q > 0): math.ceil of a quotient
CeilDiv(p, q) == -((-p) \div q)

\* the subsequence of s at the indices for which keep holds, in order
RECURSIVE SelectIdx(_, _, _)
SelectIdx(s, keep, n) ==
    IF n = 0 THEN <<>>
    ELSE IF n \in keep THEN Append(SelectIdx(s, keep, n - 1), s[n])
                       ELSE SelectIdx(s, keep, n - 1)

\* arr[idx]: numpy indexing of an array by an index array
Take(arr, idx) == [i \in 1..Len(idx) |-> arr[idx[i]]]

\* the results np.argsort(h) may give: every ordering of the indices of h in
\* which the values ascend (the order among equal values is not specified)
ArgSorts(h) ==
    {o \in [1..Len(h) -> 1..Len(h)] :
        /\ \A i, j \in 1..Len(h) : i # j => o[i] # o[j]
        /\ \A i \in 1..(Len(h) - 1) : h[o[i]] <= h[o[i + 1]]}

\* np.sort of an array of distinct values
RECURSIVE SortAsc(_)
SortAsc(s) ==
    IF Len(s) = 0 THEN <<>>
    ELSE LET m == CHOOSE i \in 1..Len(s) : \A j \in 1..Len(s) : s[i] <= s[j]
         IN  <<s[m]>> \o SortAsc(SelectIdx(s, (1..Len(s)) \ {m}, Len(s)))

\* line 144: the open detection range
InRange(v, lo, hi) == v > lo /\ v < hi

ValidIdx(xs, lo, hi) == {i \in 1..Len(xs) : InRange(xs[i], lo, hi)}

\* scipy.signal.find_peaks, local maxima: the middle sample of every plateau
\* whose two neighbours are strictly lower
IsPlateau(s, l, r) ==
    /\ 1 < l /\ l <= r /\ r < Len(s)
    /\ \A k \in l..r : s[k] = s[l]
    /\ s[l - 1] < s[l]
    /\ s[r + 1] < s[r]

LocalMaxima(s) ==
    {(l + r) \div 2 : <<l, r>> \in
        {lr \in (1..Len(s)) \X (1..Len(s)) : IsPlateau(s, lr[1], lr[2])}}

\* ascending sequence of the elements of a finite set of integers
RECURSIVE SetToSeq(_)
SetToSeq(S) ==
    IF S = {} THEN <<>>
    ELSE LET m == CHOOSE v \in S : \A w \in S : v <= w
         IN  <<m>> \o SetToSeq(S \ {m})

\* scipy.signal.find_peaks, distance condition: peaks are visited from the
\* highest priority down (order = argsort of the heights); a visited peak that
\* is still kept removes every peak closer than d samples to it.  The result
\* is the set of removed positions of pk.
RECURSIVE RemovedByDistance(_, _, _, _, _)
RemovedByDistance(pk, order, d, i, removed) ==
    IF i = 0 THEN removed
    ELSE LET j == order[i]
         IN  IF j \in removed
             THEN RemovedByDistance(pk, order, d, i - 1, removed)
             ELSE RemovedByDistance(pk, order, d, i - 1,
                     removed \cup {k \in 1..Len(pk) :
                                      k # j /\ Abs(pk[k] - pk[j]) < d})

\* find_peaks(s, distance=dnum/dden) for one argsort result
FindPeaksWith(s, dnum, dden, order) ==
    LET pk == SetToSeq(LocalMaxima(s))
        removed == RemovedByDistance(pk, order, CeilDiv(dnum, dden), Len(pk), {})
    IN  SelectIdx(pk, (1..Len(pk)) \ removed, Len(pk))

\* line 153: which of the argsort positions are kept when there are more
\* peaks than count_max: the last count_max ones
KeepTopMutFirst(order, cmax) == [i \in 1..cmax |-> order[i]]

KeepTop(order, cmax) == [i \in 1..cmax |-> order[Len(order) - cmax + i]]

\* the T(r) files read: a uniform ascending grid of NumPoints rows
Profiles == [1..NumPoints -> 0..MaxY]

DistanceChoices == {XStep, 3 * XStep}

InTryBlockMutWholeBody(step) == TRUE

\* the steps of the script that lie inside the try of lines 172-301
InTryBlock(step) ==
    step \in {"fit", "errors", "areas", "plot", "hatch", "save", "show"}

AfterFitFailedMutRetry == "fit"

\* where the script goes on after the handler of lines 300-301: its end
AfterFitFailed == "done"

\* an exception raised in a step: inside the try it is printed by the
\* handler, outside it ends the script with a traceback
\* a line printed by the script; exc names the exception it formats, if any
Say(text, exc) == [text |-> text, exc |-> exc]

RaiseAt(step) ==
    /\ raised' = Append(raised, step)
    /\ IF InTryBlock(step)
       THEN /\ fit_pc' = AfterFitFailed
            /\ stdout' = Append(stdout, Say("Fit failed", step))
       ELSE /\ fit_pc' = "uncaught"
            /\ stdout' = stdout

\* the state of the script before its first statement, for a given data file
\* and given values of the parameters to tune
FitStart ==
    /\ fit_pc = "load"
    /\ x = <<>>
    /\ y = <<>>
    /\ x_valid = <<>>
    /\ y_valid = <<>>
    /\ peaks = <<>>
    /\ selected_peaks = <<>>
    /\ initial_params = <<>>
    /\ lower_bounds = <<>>
    /\ upper_bounds = <<>>
    /\ params = <<>>
    /\ errors = <<>>
    /\ fitted_peaks = <<>>
    /\ hatch_i = 0
    /\ hatches = <<>>
    /\ stdout = <<>>
    /\ png_written = 0
    /\ fit_calls = 0
    /\ raised = <<>>

InitPeaks ==
    /\ OnlyFitRuns
    /\ FitStart
    /\ file_y \in Profiles
    /\ peak_find_range_x_min \in {0, XStep}
    /\ peak_find_range_x_max = NumPoints * XStep + 1
    /\ peak_find_distance_min \in DistanceChoices
    /\ peak_used_count = MaxPeakCount
    /\ peak_find_count_max = MaxPeakCount

\* lines 119-123: pd.read_csv and the two columns; a missing or unreadable
\* file raises
LoadData ==
    /\ fit_pc = "load"
    /\ \/ /\ x' = [i \in 1..Len(file_y) |-> i * XStep]
          /\ y' = file_y
          /\ fit_pc' = "find_peaks"
          /\ UNCHANGED <<stdout, raised>>
       \/ /\ RaiseAt("load")
          /\ UNCHANGED <<x, y>>
    /\ UNCHANGED <<file_y, peak_find_range_x_min, peak_find_range_x_max,
                   peak_find_distance_min, peak_used_count, peak_find_count_max,
                   x_valid, y_valid, peaks, selected_peaks, initial_params,
                   lower_bounds, upper_bounds, params, errors, fitted_peaks,
                   hatch_i, hatches, png_written, fit_calls>>
    /\ UNCHANGED notFit

\* lines 144-150: the valid range, find_peaks and the peak positions.
\* x_valid[1] raises IndexError with fewer than two valid samples, and
\* find_peaks raises ValueError for a distance below 1.
FindPeaks ==
    /\ fit_pc = "find_peaks"
    /\ LET keep == ValidIdx(x, peak_find_range_x_min, peak_find_range_x_max)
           xv == SelectIdx(x, keep, Len(x))
           yv == SelectIdx(y, keep, Len(y))
       IN  /\ x_valid' = xv
           /\ y_valid' = yv
           /\ IF Len(xv) < 2 \/ peak_find_distance_min < xv[2] - xv[1]
              THEN /\ RaiseAt("find_peaks")
                   /\ UNCHANGED <<peaks, selected_peaks>>
              ELSE /\ \E order \in ArgSorts(Take(yv, SetToSeq(LocalMaxima(yv)))) :
                          peaks' = FindPeaksWith(yv, peak_find_distance_min,
                                                 xv[2] - xv[1], order)
                   /\ selected_peaks' = Take(xv, peaks')
                   /\ fit_pc' = "select"
                   /\ UNCHANGED <<stdout, raised>>
    /\ UNCHANGED <<file_y, x, y, peak_find_range_x_min, peak_find_range_x_max,
                   peak_find_distance_min, peak_used_count, peak_find_count_max,
                   initial_params, lower_bounds, upper_bounds, params, errors,
                   fitted_peaks, hatch_i, hatches, png_written, fit_calls>>
    /\ UNCHANGED notFit

\* lines 152-154: keep the peak_find_count_max highest peaks, then np.sort
SelectPeaks ==
    /\ fit_pc = "select"
    /\ IF Len(selected_peaks) > peak_find_count_max
       THEN \E order \in ArgSorts(Take(y_valid, peaks)) :
               selected_peaks' =
                   SortAsc(Take(selected_peaks, KeepTop(order, peak_find_count_max)))
       ELSE selected_peaks' = SortAsc(selected_peaks)
    /\ fit_pc' = "build"
    /\ UNCHANGED <<file_y, x, y, peak_find_range_x_min, peak_find_range_x_max,
                   peak_find_distance_min, peak_used_count, peak_find_count_max,
                   x_valid, y_valid, peaks, initial_params, lower_bounds,
                   upper_bounds, params, errors, fitted_peaks, hatch_i, hatches,
                   stdout, png_written, fit_calls, raised>>
    /\ UNCHANGED notFit

\* the three entries of each Gaussian, concatenated over the selected peaks
RECURSIVE PerPeak(_, _, _)
PerPeak(sel, entry(_), n) ==
    IF n = 0 THEN <<>> ELSE PerPeak(sel, entry, n - 1) \o entry(sel[n])

SeedOf(peak) == <<amp_initial, peak, sigma_initial>>
LowerOf(peak) == <<Fin(0), Fin(peak - centre_window), Fin(0)>>
UpperOf(peak) == <<PosInf, Fin(peak + centre_window), PosInf>>

\* lines 157-169: initial_params, lower_bounds, upper_bounds
BuildParams ==
    /\ fit_pc = "build"
    /\ initial_params' = <<rho_initial>>
                            \o PerPeak(selected_peaks, SeedOf, Len(selected_peaks))
                            \o <<A_initial, n_initial, lambda_initial>>
    /\ lower_bounds' = <<NegInf>>
                          \o PerPeak(selected_peaks, LowerOf, Len(selected_peaks))
                          \o <<NegInf, Fin(0), Fin(0)>>
    /\ upper_bounds' = <<PosInf>>
                          \o PerPeak(selected_peaks, UpperOf, Len(selected_peaks))
                          \o <<Fin(0), PosInf, PosInf>>
    /\ fit_pc' = "fit"
    /\ UNCHANGED <<file_y, x, y, peak_find_range_x_min, peak_find_range_x_max,
                   peak_find_distance_min, peak_used_count, peak_find_count_max,
                   x_valid, y_valid, peaks, selected_peaks, params, errors,
                   fitted_peaks, hatch_i, hatches, stdout, png_written,
                   fit_calls, raised>>
    /\ UNCHANGED notFit

NextPeaks == LoadData \/ FindPeaks \/ SelectPeaks \/ BuildParams

SpecPeaks == InitPeaks /\ [][NextPeaks]_vars

-----------------------------------------------------------------------------
(* pdf_tr_fit.py: the fit block, lines 171-301 *)

\* lb <= v <= ub for entries of lower_bounds and upper_bounds
Within(v, lo, hi) ==
    /\ lo.inf = -1 \/ (lo.inf = 0 /\ lo.val <= v)
    /\ hi.inf = 1 \/ (hi.inf = 0 /\ v <= hi.val)

\* sample values tried for an entry of result.x: around zero for the
\* amplitudes, widths and the entries of the additional term, and around the
\* edges of the window for a centre
AroundZero == {-1, 0, 1}
AroundWindow == {-(centre_window + 1), -centre_window, 0, centre_window,
                 centre_window + 1}

\* a parameter vector laid out as line 157-160 lays out initial_params
RECURSIVE GaussEntries(_, _, _, _, _)
GaussEntries(seeds, amp, offs, sg, n) ==
    IF n = 0 THEN <<>>
    ELSE GaussEntries(seeds, amp, offs, sg, n - 1)
            \o <<amp, seeds[n] + offs[n], sg>>

\* the vectors least_squares may return: every sampled vector that respects
\* the bounds passed to it.  All Gaussians of a sampled vector share one
\* amplitude and one width; their centres vary independently.
FitOutcomes(seeds, lb, ub) ==
    {pv \in {<<0>> \o GaussEntries(seeds, amp, offs, sg, Len(seeds))
                  \o <<ca, cn, cl>> :
                amp \in AroundZero, sg \in AroundZero,
                offs \in [1..Len(seeds) -> AroundWindow],
                ca \in AroundZero, cn \in AroundZero, cl \in AroundZero} :
        \A i \in 1..Len(pv) : Within(pv[i], lb[i], ub[i])}

\* lines 173-180: least_squares; it raises, or returns a vector within bounds
Fit ==
    /\ fit_pc = "fit"
    /\ fit_calls' = fit_calls + 1
    /\ \/ /\ \E pv \in FitOutcomes(selected_peaks, lower_bounds, upper_bounds) :
                params' = pv
          /\ fit_pc' = "errors"
          /\ UNCHANGED <<stdout, raised>>
       \/ /\ RaiseAt("fit")
          /\ UNCHANGED params
    /\ UNCHANGED <<file_y, x, y, peak_find_range_x_min, peak_find_range_x_max,
                   peak_find_distance_min, peak_used_count, peak_find_count_max,
                   x_valid, y_valid, peaks, selected_peaks, initial_params,
                   lower_bounds, upper_bounds, errors, fitted_peaks, hatch_i,
                   hatches, png_written>>
    /\ UNCHANGED notFit

\* lines 112-116: the square roots of the diagonal of inv(J^T J), one per
\* column of the Jacobian, that is one per entry of result.x
StandardErrors(pv) == [i \in 1..Len(pv) |-> "est"]

NanLikeMutScalar(pv) == <<"nan">>

\* line 187: np.full_like(params, np.nan)
NanLike(pv) == [i \in 1..Len(pv) |-> "nan"]

\* lines 183-187: calculate_standard_errors inside its own try; when it
\* raises, the inner handler prints and sets errors to NaNs
EstimateErrors ==
    /\ fit_pc = "errors"
    /\ \/ /\ errors' = StandardErrors(params)
          /\ UNCHANGED <<stdout, raised>>
       \/ /\ errors' = NanLike(params)
          /\ stdout' = Append(stdout, Say("Error estimating standard errors", "errors"))
          /\ raised' = Append(raised, "errors")
    /\ fit_pc' = "areas"
    /\ UNCHANGED <<file_y, x, y, peak_find_range_x_min, peak_find_range_x_max,
                   peak_find_distance_min, peak_used_count, peak_find_count_max,
                   x_valid, y_valid, peaks, selected_peaks, initial_params,
                   lower_bounds, upper_bounds, params, fitted_peaks, hatch_i,
                   hatches, png_written, fit_calls>>
    /\ UNCHANGED notFit

\* the tuple appended at line 225 for the Gaussian at params[i : i + 3]
\* (1-based: entries i, i + 1, i + 2); the area is a float that is not modelled
PeakRecord(pv, ev, i) ==
    [x0 |-> pv[i + 1], x0_err |-> ev[i + 1],
     sigma |-> pv[i + 2], sigma_err |-> ev[i + 2]]

\* the loop of lines 201-225, for i = first, first + 3, ... < stop
RECURSIVE PeakRecords(_, _, _, _)
PeakRecords(pv, ev, i, stop) ==
    IF i >= stop THEN <<>>
    ELSE <<PeakRecord(pv, ev, i)>> \o PeakRecords(pv, ev, i + 3, stop)

\* lines 190-232: parameters, peak areas and the printed table
ComputeAreas ==
    /\ fit_pc = "areas"
    /\ \/ /\ fitted_peaks' = PeakRecords(params, errors, 2, Len(params) - 2)
          /\ stdout' = Append(stdout, Say("Fitted parameters and peaks", "none"))
          /\ fit_pc' = "plot"
          /\ UNCHANGED raised
       \/ /\ RaiseAt("areas")
          /\ UNCHANGED fitted_peaks
    /\ UNCHANGED <<file_y, x, y, peak_find_range_x_min, peak_find_range_x_max,
                   peak_find_distance_min, peak_used_count, peak_find_count_max,
                   x_valid, y_valid, peaks, selected_peaks, initial_params,
                   lower_bounds, upper_bounds, params, errors, hatch_i, hatches,
                   png_written, fit_calls>>
    /\ UNCHANGED notFit

\* line 274: if i >= peak_used_count: break
HatchBreaksMutOffByOne(i, used) == i > used

HatchBreaks(i, used) == i >= used

\* lines 235-257: the figure, the data and the fitted curve; the hatch loop
\* that follows is entered when there is a fitted peak
PlotCurves ==
    /\ fit_pc = "plot"
    /\ \/ /\ fit_pc' = IF Len(fitted_peaks) = 0 THEN "save" ELSE "hatch"
          /\ UNCHANGED <<stdout, raised>>
       \/ RaiseAt("plot")
    /\ hatch_i' = 0
    /\ UNCHANGED <<file_y, x, y, peak_find_range_x_min, peak_find_range_x_max,
                   peak_find_distance_min, peak_used_count, peak_find_count_max,
                   x_valid, y_valid, peaks, selected_peaks, initial_params,
                   lower_bounds, upper_bounds, params, errors, fitted_peaks,
                   hatches, png_written, fit_calls>>
    /\ UNCHANGED notFit

\* lines 259-280: one iteration of the hatch loop for index hatch_i (0-based)
HatchIter ==
    /\ fit_pc = "hatch"
    /\ hatch_i < Len(fitted_peaks)
    /\ \/ /\ IF HatchBreaks(hatch_i, peak_used_count)
             THEN /\ fit_pc' = "save"
                  /\ UNCHANGED <<hatch_i, hatches>>
             ELSE /\ hatches' = Append(hatches, hatch_i)
                  /\ hatch_i' = hatch_i + 1
                  /\ fit_pc' = IF hatch_i' < Len(fitted_peaks) THEN "hatch" ELSE "save"
          /\ UNCHANGED <<stdout, raised>>
       \/ /\ RaiseAt("hatch")
          /\ UNCHANGED <<hatch_i, hatches>>
    /\ UNCHANGED <<file_y, x, y, peak_find_range_x_min, peak_find_range_x_max,
                   peak_find_distance_min, peak_used_count, peak_find_count_max,
                   x_valid, y_valid, peaks, selected_peaks, initial_params,
                   lower_bounds, upper_bounds, params, errors, fitted_peaks,
                   png_written, fit_calls>>
    /\ UNCHANGED notFit

\* lines 283-298: axis settings, legend, grid and plt.savefig
SaveFigure ==
    /\ fit_pc = "save"
    /\ \/ /\ png_written' = png_written + 1
          /\ fit_pc' = "show"
          /\ UNCHANGED <<stdout, raised>>
       \/ /\ RaiseAt("save")
          /\ UNCHANGED png_written
    /\ UNCHANGED <<file_y, x, y, peak_find_range_x_min, peak_find_range_x_max,
                   peak_find_distance_min, peak_used_count, peak_find_count_max,
                   x_valid, y_valid, peaks, selected_peaks, initial_params,
                   lower_bounds, upper_bounds, params, errors, fitted_peaks,
                   hatch_i, hatches, fit_calls>>
    /\ UNCHANGED notFit

\* line 299: plt.show, then the end of the script
ShowFigure ==
    /\ fit_pc = "show"
    /\ \/ /\ fit_pc' = "done"
          /\ UNCHANGED <<stdout, raised>>
       \/ RaiseAt("show")
    /\ UNCHANGED <<file_y, x, y, peak_find_range_x_min, peak_find_range_x_max,
                   peak_find_distance_min, peak_used_count, peak_find_count_max,
                   x_valid, y_valid, peaks, selected_peaks, initial_params,
                   lower_bounds, upper_bounds, params, errors, fitted_peaks,
                   hatch_i, hatches, png_written, fit_calls>>
    /\ UNCHANGED notFit

\* the data files of the whole-script runs: isolated spikes of height MaxY on
\* the even rows of a zero baseline
SpikeProfiles ==
    {f \in Profiles :
        \A i \in 1..NumPoints : f[i] \in {0, MaxY} /\ (i % 2 = 1 => f[i] = 0)}

InitFit ==
    /\ OnlyFitRuns
    /\ FitStart
    /\ file_y \in SpikeProfiles
    /\ peak_find_range_x_min = 0
    /\ peak_find_range_x_max = NumPoints * XStep + 1
    /\ peak_find_distance_min \in DistanceChoices
    /\ peak_used_count \in 1..MaxPeakCount
    /\ peak_find_count_max = MaxPeakCount

NextFit ==
    \/ LoadData \/ FindPeaks \/ SelectPeaks \/ BuildParams
    \/ Fit \/ EstimateErrors \/ ComputeAreas \/ PlotCurves \/ HatchIter
    \/ SaveFigure \/ ShowFigure

SpecFit == InitFit /\ [][NextFit]_vars

-----------------------------------------------------------------------------
(* Actions of the line parsers *)

\* one pass of the loop body of an xafs script: the guard len(parts) >= need,
\* then the appends inside try / except ValueError: continue
XafsLine(name, need, idxs) ==
    /\ parse_pc = "read"
    /\ script = name
    /\ line_no <= Len(file_lines)
    /\ LET ln == file_lines[line_no]
           r == IF Len(ln) >= need
                THEN AppendFields(parsed, ln, line_no, idxs, 1)
                ELSE [lists |-> parsed, exc |-> "none"]
       IN  /\ parsed' = r.lists
           /\ IF r.exc \in {"none", "ValueError"}
              THEN /\ line_no' = line_no + 1
                   /\ UNCHANGED <<parse_pc, parse_exc>>
              ELSE /\ parse_pc' = "raised"
                   /\ parse_exc' = r.exc
                   /\ UNCHANGED line_no
    /\ UNCHANGED <<script, file_lines, has_tag, nan_cells>>
    /\ UNCHANGED notParse

\* xafs_norm.py lines 77-87
ReadLineXafsNorm == XafsLine("xafs_norm", 2, <<1, 2>>)

\* xafs_chik.py lines 77-87
ReadLineXafsChik == XafsLine("xafs_chik", 2, <<1, 4>>)

\* xafs_chir.py lines 77-87
ReadLineXafsChir == XafsLine("xafs_chir", 2, <<1, 4>>)

\* xafs_chik_fit.py lines 83-94
ReadLineXafsChikFit == XafsLine("xafs_chik_fit", 3, <<1, 2, 3>>)

\* xafs_chir_fit.py lines 79-90
ReadLineXafsChirFit == XafsLine("xafs_chir_fit", 3, <<1, 2, 3>>)

\* one element of the list comprehension of a haxpes script: blank lines are
\* filtered out, every field of another line goes through float, no try
HaxpesLine(name) ==
    /\ parse_pc = "read"
    /\ script = name
    /\ line_no <= Len(file_lines)
    /\ LET ln == file_lines[line_no]
           all == UpTo(Len(ln))
       IN  IF Len(ln) = 0
           THEN /\ line_no' = line_no + 1
                /\ UNCHANGED <<parsed, parse_pc, parse_exc>>
           ELSE IF AllNumeric(ln, all)
           THEN /\ parsed' = [parsed EXCEPT ![1] = Append(@, FloatsOf(line_no, all, 1))]
                /\ line_no' = line_no + 1
                /\ UNCHANGED <<parse_pc, parse_exc>>
           ELSE /\ parse_pc' = "raised"
                /\ parse_exc' = "ValueError"
                /\ UNCHANGED <<parsed, line_no>>
    /\ UNCHANGED <<script, file_lines, has_tag, nan_cells>>
    /\ UNCHANGED notParse

\* haxpes_pt4f.py lines 166-171
ReadLineHaxpesPt4f == HaxpesLine("haxpes_pt4f")

\* haxpes_vb.py lines 99-103
ReadLineHaxpesVb == HaxpesLine("haxpes_vb")

\* pd.DataFrame(rows, columns=[two names]): rows shorter than the longest
\* are padded with NaN; a longest row that has not two cells raises
BuildFrame ==
    /\ parse_pc = "read"
    /\ script \in HaxpesScripts
    /\ line_no > Len(file_lines)
    /\ LET rows == parsed[1]
           widest == IF rows = <<>> THEN 2
                     ELSE CHOOSE w \in {Len(rows[i]) : i \in 1..Len(rows)} :
                             \A i \in 1..Len(rows) : Len(rows[i]) <= w
       IN  IF widest = 2
           THEN /\ nan_cells' = Cardinality({i \in 1..Len(rows) : Len(rows[i]) < 2})
                /\ parse_pc' = "done"
                /\ UNCHANGED parse_exc
           ELSE /\ parse_pc' = "raised"
                /\ parse_exc' = "ValueError"
                /\ UNCHANGED nan_cells
    /\ UNCHANGED <<script, file_lines, line_no, parsed, has_tag>>
    /\ UNCHANGED notParse

\* haxpes_energy_calibration.py lines 101-112, for a line after the [Data]
\* tag: the first line parsed after the tag creates the list and is not
\* appended
ReadLineCalibration ==
    /\ parse_pc = "read"
    /\ script = "haxpes_energy_calibration"
    /\ line_no <= Len(file_lines)
    /\ LET ln == file_lines[line_no]
       IN  IF Len(ln) # 2
           THEN /\ line_no' = line_no + 1
                /\ UNCHANGED <<parsed, parse_pc, parse_exc, has_tag>>
           ELSE IF AllNumeric(ln, <<1, 2>>)
           THEN /\ parsed' = IF has_tag
                             THEN [parsed EXCEPT ![1] = Append(@, FloatsOf(line_no, <<1, 2>>, 1))]
                             ELSE parsed
                /\ has_tag' = TRUE
                /\ line_no' = line_no + 1
                /\ UNCHANGED <<parse_pc, parse_exc>>
           ELSE /\ parse_pc' = "raised"
                /\ parse_exc' = "ValueError"
                /\ UNCHANGED <<parsed, line_no, has_tag>>
    /\ UNCHANGED <<script, file_lines, nan_cells>>
    /\ UNCHANGED notParse

\* saxs_profile.py lines 72-78, for a line after the four header lines
ReadLineSaxs ==
    /\ parse_pc = "read"
    /\ script = "saxs_profile"
    /\ line_no <= Len(file_lines)
    /\ LET ln == file_lines[line_no]
       IN  IF Len(ln) < 2
           THEN /\ line_no' = line_no + 1
                /\ UNCHANGED <<parsed, parse_pc, parse_exc>>
           ELSE IF AllNumeric(ln, <<1, 2>>)
           THEN /\ parsed' = [parsed EXCEPT ![1] = Append(@, FloatsOf(line_no, <<1, 2>>, 1))]
                /\ line_no' = line_no + 1
                /\ UNCHANGED <<parse_pc, parse_exc>>
           ELSE /\ parse_pc' = "raised"
                /\ parse_exc' = "ValueError"
                /\ UNCHANGED <<parsed, line_no>>
    /\ UNCHANGED <<script, file_lines, has_tag, nan_cells>>
    /\ UNCHANGED notParse

\* the file is exhausted and the script goes on with the lists it has
EndOfFile ==
    /\ parse_pc = "read"
    /\ script \notin HaxpesScripts
    /\ line_no > Len(file_lines)
    /\ parse_pc' = "done"
    /\ UNCHANGED <<script, file_lines, line_no, parsed, parse_exc, has_tag, nan_cells>>
    /\ UNCHANGED notParse

InitParse ==
    /\ OnlyParseRuns
    /\ parse_pc = "read"
    /\ script \in Scripts
    /\ file_lines \in Files
    /\ line_no = 1
    /\ parsed = EmptyLists(script)
    /\ parse_exc = "none"
    /\ has_tag = FALSE
    /\ nan_cells = 0

NextParse ==
    \/ ReadLineXafsNorm \/ ReadLineXafsChik \/ ReadLineXafsChir
    \/ ReadLineXafsChikFit \/ ReadLineXafsChirFit
    \/ ReadLineHaxpesPt4f \/ ReadLineHaxpesVb \/ BuildFrame
    \/ ReadLineCalibration \/ ReadLineSaxs \/ EndOfFile

SpecParse == InitParse /\ [][NextParse]_vars

-----------------------------------------------------------------------------
(* Properties of shirley_background_correction *)

\* the background after n accepted updates of the zero background
RECURSIVE BgAfter(_)
BgAfter(n) ==
    IF n = 0 THEN Zeros(Len(intensity))
    ELSE NewBg(BgAfter(n - 1), intensity, idx_min, idx_max)

NoTestSucceeded == \A j \in 1..Len(tests) : ~tests[j]

LastTestSucceeded == Len(tests) > 0 /\ tests[Len(tests)]

\* bg is non-increasing or non-decreasing over the indices a..b
Monotonic(s, a, b) ==
    \/ \A i \in a..(b - 1) : s[i] <= s[i + 1]
    \/ \A i \in a..(b - 1) : s[i] >= s[i + 1]

\* C1: the loop computes at most max_iters updates; the j-th test compares the
\* j-th new background with the one before it against eps; an iteration whose
\* test succeeds is the last one computed; and the loop is left only after
\* such an iteration or after max_iters iterations.
C1_AtMostMaxItersStopsAtFirstConvergence ==
    /\ Len(tests) <= max_iters
    /\ Len(tests) = iter_count + 1
    /\ \A j \in 1..Len(tests) : tests[j] => j = Len(tests)
    /\ sh_pc = "loop" => NoTestSucceeded
    /\ sh_pc \in {"after", "done"} =>
          (LastTestSucceeded \/ Len(tests) = max_iters)
    /\ (sh_pc = "done" /\ finite) =>
          /\ bg = BgAfter(IF LastTestSucceeded THEN Len(tests) - 1 ELSE Len(tests))
          /\ \A j \in 1..Len(tests) :
                tests[j] = Converged(BgAfter(j), BgAfter(j - 1))

\* C1 witness: a run that converged in its third iteration or later, before
\* the cap, and returned
C1_Witness ==
    /\ sh_pc = "done"
    /\ LastTestSucceeded
    /\ Len(tests) >= 3
    /\ Len(tests) < max_iters

\* C2: a run that reaches the cap with no successful convergence test warns
\* and returns intensity minus the background of the last (max_iters-th)
\* update, an array as long as the input.
C2_CapReachedWarnsAndReturns ==
    (sh_pc \in {"after", "done"} /\ NoTestSucceeded) =>
        /\ Len(tests) = max_iters
        /\ sh_pc = "done" =>
              /\ warned
              /\ Len(corrected_intensity) = Len(intensity)
              /\ Len(corrected_intensity) > 0
              /\ finite =>
                    \A i \in 1..Len(intensity) :
                        corrected_intensity[i] =
                            Scaled(intensity)[i] - BgAfter(max_iters)[i]

\* C2 witness: a finite run of at least three iterations that never converged
C2_Witness ==
    /\ sh_pc = "done"
    /\ NoTestSucceeded
    /\ finite
    /\ max_iters >= 3
    /\ warned
    /\ \E i \in 1..Len(bg) : bg[i] # 0

\* C3 (as claimed): whenever the convergence test succeeded in some iteration,
\* the last permitted one included, no warning is emitted.
C3_NoWarningWhenConverged ==
    (sh_pc = "done" /\ ~NoTestSucceeded) => ~warned

\* C4 (as claimed): for non-negative intensities the background the function
\* converged to is non-negative everywhere and monotonic between the anchors.
C4_ConvergedBackgroundMonotonicNonNegative ==
    (sh_pc = "done" /\ LastTestSucceeded) =>
        /\ \A i \in 1..Len(bg) : bg[i] >= 0
        /\ Monotonic(bg, idx_min, idx_max)

-----------------------------------------------------------------------------
(* Properties of pdf_tr_fit.py: peak detection and seeding *)

\* number of Gaussians of a parameter vector (line 88)
NumGauss(pv) == (Len(pv) - 4) \div 3

\* the centre of the k-th Gaussian of a parameter vector, k = 1, 2, ...
Centre(pv, k) == pv[3 * k]

SeededCentres == {Centre(initial_params, k) : k \in 1..NumGauss(initial_params)}

\* the data index of a sample that is a local maximum among the samples
\* lying in the open detection range
IsPeakInOpenRange(i) ==
    /\ i - 1 \in 1..Len(x) /\ i + 1 \in 1..Len(x)
    /\ \A j \in {i - 1, i, i + 1} :
          x[j] > peak_find_range_x_min /\ x[j] < peak_find_range_x_max
    /\ y[i - 1] <= y[i] /\ y[i + 1] <= y[i]

YAt(pos) == y[CHOOSE i \in 1..Len(x) : x[i] = pos]

\* C8: every seeded centre is the x position of a peak detected inside the
\* open range; at most peak_find_count_max Gaussians are seeded; a detected
\* peak that is not seeded is no higher than any seeded one; and the centres
\* are in strictly ascending order.
C8_SeedsAreTopPeaksInRangeAscending ==
    initial_params # <<>> =>
        LET ng == NumGauss(initial_params)
            detected == Range(Take(x_valid, peaks))
        IN  /\ Len(initial_params) = 3 * ng + 4
            /\ ng <= peak_find_count_max
            /\ ng = IF Len(peaks) > peak_find_count_max
                    THEN peak_find_count_max ELSE Len(peaks)
            /\ \A k \in 1..ng :
                  /\ Centre(initial_params, k) \in detected
                  /\ \E i \in 1..Len(x) :
                        x[i] = Centre(initial_params, k) /\ IsPeakInOpenRange(i)
            /\ \A pos \in detected \ SeededCentres :
                  \A c \in SeededCentres : YAt(pos) <= YAt(c)
            /\ \A k \in 1..(ng - 1) :
                  Centre(initial_params, k) < Centre(initial_params, k + 1)

\* C8 witness: three peaks detected, two seeded; the dropped peak is lower
\* than a seeded one, and the seeded peak at the smaller x is the higher one,
\* so that the order by height is not the order by position
C8_Witness ==
    /\ fit_pc = "fit"
    /\ Len(peaks) = 3
    /\ NumGauss(initial_params) = 2
    /\ \E pos \in Range(Take(x_valid, peaks)) \ SeededCentres :
          \E c \in SeededCentres : YAt(pos) < YAt(c)
    /\ YAt(Centre(initial_params, 1)) > YAt(Centre(initial_params, 2))

-----------------------------------------------------------------------------
(* Properties of the fit block of pdf_tr_fit.py *)

Last(s) == s[Len(s)]

Min(a, b) == IF a < b THEN a ELSE b

\* the script has stopped: it ran to its last line, or an exception left it
FitEnded == fit_pc \in {"done", "uncaught"}

\* C5 as stated: an exception raised by the script never propagates; it is
\* caught and the script exits normally.
C5_NoExceptionPropagates == fit_pc # "uncaught"

\* C5 amended: an exception raised in the least-squares fit, in the area
\* computation, in plotting, in the hatch loop, in saving or in showing the
\* figure is caught, "Fit failed: <exception>" is printed and the script
\* ends normally; an exception raised while loading the data or detecting
\* the peaks is not caught and ends the script.
C5_OnlyFitBlockFailuresAreCaught ==
    /\ \A i \in 1..Len(raised) :
          raised[i] \in {"fit", "areas", "plot", "hatch", "save", "show"} =>
              /\ i = Len(raised)
              /\ fit_pc = "done"
              /\ Last(stdout) = Say("Fit failed", raised[i])
    /\ \A i \in 1..Len(raised) :
          raised[i] \in {"load", "find_peaks"} =>
              /\ i = Len(raised)
              /\ fit_pc = "uncaught"
              /\ \A j \in 1..Len(stdout) : stdout[j].text # "Fit failed"
    /\ fit_pc = "uncaught" => raised # <<>> /\ Last(raised) \in {"load", "find_peaks"}

\* C5 witness: plotting raised after a successful fit; it was caught
C5_Witness ==
    /\ fit_pc = "done"
    /\ raised = <<"plot">>
    /\ params # <<>>
    /\ Last(stdout) = Say("Fit failed", "plot")

\* C6 as stated: after an exception raised in the fit block before the save
\* step, "Fit failed: <exception>" is printed, no PNG is written, the fit is
\* not retried and the script ends normally.
C6_FailureBeforeSavePrintsAndWritesNoPng ==
    (FitEnded /\ \E i \in 1..Len(raised) :
                    raised[i] \in {"fit", "errors", "areas", "plot", "hatch"}) =>
        /\ \E j \in 1..Len(stdout) : stdout[j].text = "Fit failed"
        /\ png_written = 0
        /\ fit_calls <= 1
        /\ fit_pc = "done"

\* C6 amended: after an exception raised in the fit block before the save
\* step by anything other than calculate_standard_errors, "Fit failed:
\* <exception>" is printed, no PNG is written, the fit is not retried and the
\* script ends normally.  An exception of calculate_standard_errors is
\* handled by the inner handler and the script goes on.
C6_OuterFailureBeforeSavePrintsAndWritesNoPng ==
    /\ \A i \in 1..Len(raised) :
          raised[i] \in {"fit", "areas", "plot", "hatch"} =>
              /\ Last(stdout) = Say("Fit failed", raised[i])
              /\ png_written = 0
              /\ fit_calls = 1
              /\ fit_pc = "done"
    /\ (fit_pc = "done" /\ raised = <<"errors">>) =>
          /\ png_written = 1
          /\ Last(stdout).text # "Fit failed"
          /\ \A i \in 1..Len(errors) : errors[i] = "nan"

\* C6 witness: the area computation raised after the standard errors had
\* been estimated
C6_Witness ==
    /\ fit_pc = "done"
    /\ raised = <<"areas">>
    /\ errors # <<>>
    /\ png_written = 0

\* C9: the fitted parameters of the additional term satisfy A < 0, n > 0 and
\* lambda > 0.
C9_FittedTermStrictlyConstrained ==
    params # <<>> =>
        /\ params[Len(params) - 2] < 0
        /\ params[Len(params) - 1] > 0
        /\ params[Len(params)] > 0

\* the hatch loop has run to its end
HatchLoopEnded ==
    \/ fit_pc \in {"save", "show"}
    \/ fit_pc = "done" /\ (raised = <<>> \/ Last(raised) \in {"errors", "save", "show"})

\* C10: the fitted peaks are in ascending order of position, one per fitted
\* Gaussian; the hatched ones are the first ones of that order, and when the
\* loop has ended they are the first min(peak_used_count, number of fitted
\* peaks).
C10_HatchesFirstPeakUsedCountPeaks ==
    /\ fitted_peaks # <<>> => Len(fitted_peaks) = NumGauss(params)
    /\ \A k \in 1..(Len(fitted_peaks) - 1) :
          fitted_peaks[k].x0 < fitted_peaks[k + 1].x0
    /\ \A k \in 1..Len(hatches) : hatches[k] = k - 1
    /\ Len(hatches) <= Min(peak_used_count, Len(fitted_peaks))
    /\ HatchLoopEnded =>
          Len(hatches) = Min(peak_used_count, Len(fitted_peaks))

\* C10 witness: more peaks fitted than peak_used_count allows to hatch
C10_Witness ==
    /\ fit_pc = "done"
    /\ raised = <<>>
    /\ Len(fitted_peaks) > peak_used_count
    /\ Len(hatches) = peak_used_count

-----------------------------------------------------------------------------
(* Properties of the line parsers *)

\* the fields a script reads from a data line, 1-based
FieldsRead(name) ==
    IF name \in {"xafs_chik", "xafs_chir"} THEN {1, 4}
    ELSE IF name \in {"xafs_chik_fit", "xafs_chir_fit"} THEN {1, 2, 3}
    ELSE {1, 2}

\* a malformed data line: fewer fields than the script reads, or a field the
\* script reads that is not a number
Malformed(name, ln) ==
    \E j \in FieldsRead(name) : j > Len(ln) \/ ~ln[j]

\* C7: a malformed data line is skipped silently: the lists parsed so far
\* are left as they were, no exception is raised and parsing goes on with
\* the next line.
C7_MalformedLineIsSkipped ==
    [][(/\ parse_pc = "read"
        /\ line_no <= Len(file_lines)
        /\ Malformed(script, file_lines[line_no]))
          => /\ parsed' = parsed
             /\ parse_pc' = "read"
             /\ parse_exc' = "none"
             /\ line_no' = line_no + 1]_vars

-----------------------------------------------------------------------------
(* Properties of the error estimates of pdf_tr_fit.py *)

\* C11: once the standard errors are set there is one per fitted parameter;
\* they are all NaN exactly when calculate_standard_errors raised; and after
\* such a failure the script goes on: a run that then ends without another
\* exception has computed the peak table and written the figure.
C11_ErrorEstimateForEveryParameter ==
    /\ errors # <<>> =>
          /\ Len(errors) = Len(params)
          /\ IF \E i \in 1..Len(raised) : raised[i] = "errors"
             THEN \A i \in 1..Len(errors) : errors[i] = "nan"
             ELSE \A i \in 1..Len(errors) : errors[i] = "est"
    /\ (raised # <<>> /\ Last(raised) = "errors") =>
          /\ fit_pc \in {"areas", "plot", "hatch", "save", "show", "done"}
          /\ Last(stdout).text # "Fit failed"
          /\ fit_pc = "done" =>
                /\ png_written = 1
                /\ Len(fitted_peaks) = NumGauss(params)
                /\ \A k \in 1..Len(fitted_peaks) :
                      fitted_peaks[k].x0_err = "nan" /\ fitted_peaks[k].sigma_err = "nan"

\* C11 witness: the covariance computation raised for a fit with at least one
\* Gaussian, and the script ran to its end
C11_Witness ==
    /\ fit_pc = "done"
    /\ raised = <<"errors">>
    /\ Len(params) > 4
    /\ Len(errors) = Len(params)
    /\ png_written = 1

-----------------------------------------------------------------------------
(* haxpes_pt4f.py / haxpes_vb.py: the filter on the lines of an input file *)

\* the lines of the input files, as sequences of characters: optional white
\* space, an optional comment mark, an optional digit, optional white space
Texts ==
    {t \in {lead \o mark \o digit \o trail :
                lead \in {<<>>, <<" ">>}, mark \in {<<>>, <<"#">>},
                digit \in {<<>>, <<"1">>}, trail \in {<<>>, <<" ">>}} :
        Len(t) <= MaxChars}

RECURSIVE RawFilesOfLen(_)
RawFilesOfLen(n) ==
    IF n = 0 THEN {<<>>}
    ELSE {Append(f, t) : f \in RawFilesOfLen(n - 1), t \in Texts}

RawFiles == UNION {RawFilesOfLen(n) : n \in 0..MaxLines}

\* str.startswith for a one-character prefix
StartsWith(text, c) == Len(text) >= 1 /\ text[1] = c

\* str.strip: white space removed from both ends
RECURSIVE LStrip(_)
LStrip(text) ==
    IF text # <<>> /\ Head(text) = " " THEN LStrip(Tail(text)) ELSE text

RECURSIVE RStrip(_)
RStrip(text) ==
    IF text # <<>> /\ text[Len(text)] = " "
    THEN RStrip(SubSeq(text, 1, Len(text) - 1))
    ELSE text

Strip(text) == RStrip(LStrip(text))

KeepsLineMutNoBlankTest(text) == ~StartsWith(text, "#")

\* the condition of the list comprehension:
\* not line.startswith("#") and line.strip()
KeepsLine(text) == ~StartsWith(text, "#") /\ Strip(text) # <<>>

\* the positions, in order, of the lines the comprehension keeps among the
\* first n lines
RECURSIVE KeptUpTo(_, _)
KeptUpTo(ls, n) ==
    IF n = 0 THEN <<>>
    ELSE IF KeepsLine(ls[n]) THEN Append(KeptUpTo(ls, n - 1), n)
    ELSE KeptUpTo(ls, n - 1)

RECURSIVE TextsAt(_, _, _)
TextsAt(ls, idx, n) ==
    IF n = 0 THEN <<>> ELSE Append(TextsAt(ls, idx, n - 1), ls[idx[n]])

\* float(text): white space around the number is accepted; anything that
\* is not a number raises ValueError
FloatAccepts(text) ==
    /\ Strip(text) # <<>>
    /\ \A i \in 1..Len(Strip(text)) : Strip(text)[i] = "1"

\* data_lines = [line for line in lines if ...]
FilterLines(name) ==
    /\ filter_pc = "filter"
    /\ filter_script = name
    /\ data_idx' = KeptUpTo(lines, Len(lines))
    /\ data_lines' = TextsAt(lines, data_idx', Len(data_idx'))
    /\ filter_pc' = IF data_lines' = <<>> THEN "frame" ELSE "convert"
    /\ UNCHANGED <<filter_script, lines, converted, filter_exc>>
    /\ UNCHANGED notFilter

\* haxpes_pt4f.py line 166
FilterLinesPt4f == FilterLines("haxpes_pt4f")

\* haxpes_vb.py line 99
FilterLinesVb == FilterLines("haxpes_vb")

\* one element of [list(map(float, line.split(","))) for line in data_lines]
ConvertLine(name) ==
    /\ filter_pc = "convert"
    /\ filter_script = name
    /\ LET text == data_lines[Len(converted) + 1]
       IN  /\ converted' = Append(converted, text)
           /\ IF FloatAccepts(text)
              THEN /\ filter_pc' = IF Len(converted') = Len(data_lines)
                                   THEN "frame" ELSE "convert"
                   /\ UNCHANGED filter_exc
              ELSE /\ filter_pc' = "raised"
                   /\ filter_exc' = "ValueError"
    /\ UNCHANGED <<filter_script, lines, data_lines, data_idx>>
    /\ UNCHANGED notFilter

\* haxpes_pt4f.py line 170
ConvertLinePt4f == ConvertLine("haxpes_pt4f")

\* haxpes_vb.py line 103
ConvertLineVb == ConvertLine("haxpes_vb")

InitFilter ==
    /\ OnlyFilterRuns
    /\ filter_pc = "filter"
    /\ filter_script \in HaxpesScripts
    /\ lines \in RawFiles
    /\ data_lines = <<>>
    /\ data_idx = <<>>
    /\ converted = <<>>
    /\ filter_exc = "none"

NextFilter ==
    \/ FilterLinesPt4f \/ FilterLinesVb \/ ConvertLinePt4f \/ ConvertLineVb

SpecFilter == InitFilter /\ [][NextFilter]_vars

\* a line is blank when it holds nothing but white space
IsBlank(text) == \A i \in 1..Len(text) : text[i] = " "

\* C12: once the filter has run, the kept lines are the lines that neither
\* start with '#' nor are blank, each once and in file order; float() is
\* applied to kept lines only, in that order, and never to a line that
\* starts with '#'.
C12_DataLinesAreTheNonCommentNonBlankLines ==
    filter_pc \in {"convert", "frame", "raised"} =>
        /\ \A k \in 1..Len(data_idx) : data_idx[k] \in 1..Len(lines)
        /\ \A k \in 1..(Len(data_idx) - 1) : data_idx[k] < data_idx[k + 1]
        /\ {data_idx[k] : k \in 1..Len(data_idx)}
              = {i \in 1..Len(lines) : lines[i] = <<>> \/ lines[i][1] # "#"}
                   \ {i \in 1..Len(lines) : IsBlank(lines[i])}
        /\ Len(data_lines) = Len(data_idx)
        /\ \A k \in 1..Len(data_lines) : data_lines[k] = lines[data_idx[k]]
        /\ Len(converted) <= Len(data_lines)
        /\ \A k \in 1..Len(converted) :
              /\ converted[k] = data_lines[k]
              /\ ~(converted[k] # <<>> /\ converted[k][1] = "#")

\* C12 witness: a metadata line followed by a data line; the data line alone
\* was kept and converted
C12_Witness ==
    /\ filter_pc = "frame"
    /\ Len(lines) = 2
    /\ lines[1] # <<>> /\ lines[1][1] = "#"
    /\ data_idx = <<2>>
    /\ converted = <<lines[2]>>

-----------------------------------------------------------------------------
(* Normalization of an intensity series to its peak value *)

\* the series handed to the normalization: up to NumSamples values, some of
\* them zero or negative (a background-corrected intensity can be)
IntensitySeries == UNION {[1..n -> (-1)..MaxI] : n \in 0..NumSamples}

\* Series.max() / np.amax over a non-empty series
RECURSIVE MaxUpTo(_, _)
MaxUpTo(s, n) ==
    IF n = 1 THEN s[1]
    ELSE IF s[n] > MaxUpTo(s, n - 1) THEN s[n] ELSE MaxUpTo(s, n - 1)

PeakValueMutSum(s) == CumSum(s, Len(s))

PeakValue(s) == MaxUpTo(s, Len(s))

\* s / peak, element by element, on the fixed-point grid
RECURSIVE DividedUpTo(_, _, _)
DividedUpTo(s, peak, n) ==
    IF n = 0 THEN <<>>
    ELSE Append(DividedUpTo(s, peak, n - 1), RoundDiv(s[n] * Scale, peak))

\* series / series.max(): an empty pandas Series has the maximum NaN and
\* stays empty; a maximum of zero gives inf and nan
DivideByPeak(site) ==
    /\ norm_pc = "normalize"
    /\ norm_site = site
    /\ series # <<>>
    /\ IF PeakValue(series) = 0
       THEN /\ norm_finite' = FALSE
            /\ UNCHANGED normalized
       ELSE /\ normalized' = DividedUpTo(series, PeakValue(series), Len(series))
            /\ UNCHANGED norm_finite
    /\ norm_pc' = "done"
    /\ UNCHANGED <<norm_site, series>>
    /\ UNCHANGED notNorm

\* haxpes_vb.py line 108: data["Intensity"] /= data["Intensity"].max()
NormalizeVb == DivideByPeak("haxpes_vb")

\* haxpes_pt4f.py lines 180-182
NormalizePt4f == DivideByPeak("haxpes_pt4f")

\* haxpes_energy_calibration.py lines 134-135: np.amax, then yarray /= ymax
NormalizeCalibration == DivideByPeak("haxpes_energy_calibration")

\* the same statements on a series without elements: the pandas maximum is
\* NaN and the series stays empty; np.amax raises ValueError
NormalizeEmpty ==
    /\ norm_pc = "normalize"
    /\ series = <<>>
    /\ norm_pc' = IF norm_site = "haxpes_energy_calibration" THEN "raised" ELSE "done"
    /\ UNCHANGED <<norm_site, series, normalized, norm_finite>>
    /\ UNCHANGED notNorm

InitNormalize ==
    /\ OnlyNormRuns
    /\ norm_pc = "normalize"
    /\ norm_site \in {"haxpes_vb", "haxpes_pt4f", "haxpes_energy_calibration"}
    /\ series \in IntensitySeries
    /\ normalized = <<>>
    /\ norm_finite = TRUE

NextNormalize ==
    \/ NormalizeVb \/ NormalizePt4f \/ NormalizeCalibration \/ NormalizeEmpty

SpecNormalize == InitNormalize /\ [][NextNormalize]_vars

\* C13: after normalization of a series whose largest value is positive, the
\* result has as many values as the series, its largest value is exactly 1
\* and stands where the largest value of the series stood, no value exceeds
\* 1, and the values are in the order they had.
C13_NormalizedPeakIsOne ==
    (norm_pc = "done" /\ \E i \in 1..Len(series) : series[i] > 0) =>
        /\ norm_finite
        /\ Len(normalized) = Len(series)
        /\ \A i \in 1..Len(normalized) : normalized[i] <= Scale
        /\ \E i \in 1..Len(normalized) : normalized[i] = Scale
        /\ \A i \in 1..Len(series) :
              (\A j \in 1..Len(series) : series[j] <= series[i])
                  => normalized[i] = Scale
        /\ \A i, j \in 1..Len(series) :
              series[i] <= series[j] => normalized[i] <= normalized[j]

\* C13 witness: a series whose peak is neither 1 nor its first value, with a
\* negative value in it
C13_Witness ==
    /\ norm_pc = "done"
    /\ Len(series) >= 2
    /\ \E i \in 2..Len(series) :
          /\ series[i] > 1
          /\ \A j \in 1..Len(series) : series[j] <= series[i]
          /\ normalized[i] = Scale
    /\ \E j \in 1..Len(series) : series[j] < 0 /\ normalized[j] < 0

-----------------------------------------------------------------------------
(* haxpes_energy_calibration.py: leading energies and the energy offset *)

\* lines 195-197, in units of 0.05
y_interpolate == 8
y_interpolate_min == 1
y_interpolate_max == 15

\* normalized intensities of the series: below y_interpolate_min, between
\* the two limits (y_interpolate itself included), above y_interpolate_max
YLevels == {0, 4, 8, 12, 16}

\* the energies of a series of n points: descending, EnergyStep apart, the
\* whole series displaced by shift
RECURSIVE EnergiesUpTo(_, _, _)
EnergiesUpTo(n, shift, k) ==
    IF k = 0 THEN <<>>
    ELSE Append(EnergiesUpTo(n, shift, k - 1), (n - k) * EnergyStep + shift)

\* lines 148-155: the points taken from the end of the series backwards,
\* as <<y, x>> pairs: those with y > y_interpolate_min, up to and including
\* the first with y > y_interpolate_max
RECURSIVE SubsetFrom(_, _, _)
SubsetFrom(xs, ys, i) ==
    IF i = 0 THEN <<>>
    ELSE LET here == IF ys[i] > y_interpolate_min THEN <<<<ys[i], xs[i]>>>>
                     ELSE <<>>
         IN  IF ys[i] > y_interpolate_max THEN here
             ELSE here \o SubsetFrom(xs, ys, i - 1)

\* np.argsort(kind="mergesort") of interp1d: pairs in ascending y, pairs of
\* equal y in the order they had
RECURSIVE InsertByY(_, _)
InsertByY(sorted, pr) ==
    IF sorted = <<>> THEN <<pr>>
    ELSE IF sorted[Len(sorted)][1] <= pr[1] THEN Append(sorted, pr)
    ELSE Append(InsertByY(SubSeq(sorted, 1, Len(sorted) - 1), pr),
                sorted[Len(sorted)])

RECURSIVE SortByY(_, _)
SortByY(prs, n) ==
    IF n = 0 THEN <<>> ELSE InsertByY(SortByY(prs, n - 1), prs[n])

\* interp1d(yarray_sub, xarray_sub, kind="linear") evaluated at q: outside
\* the range of yarray_sub (or with no point at all) it raises ValueError;
\* inside, np.interp takes the segment j with y[j] <= q < y[j + 1]
InterpAt(prs, q) ==
    IF prs = <<>> \/ q < prs[1][1] \/ q > prs[Len(prs)][1]
    THEN [ok |-> FALSE, val |-> 0]
    ELSE LET j == CHOOSE k \in 1..Len(prs) :
                     /\ prs[k][1] <= q
                     /\ \A m \in (k + 1)..Len(prs) : prs[m][1] > q
         IN  IF prs[j][1] = q THEN [ok |-> TRUE, val |-> prs[j][2]]
             ELSE [ok |-> TRUE,
                   val |-> prs[j][2]
                           + RoundDiv((prs[j + 1][2] - prs[j][2]) * (q - prs[j][1]),
                                      prs[j + 1][1] - prs[j][1])]

\* get_leading_energy_at_y_interpolate
LeadingEnergy(xs, ys) ==
    LET sub == SubsetFrom(xs, ys, Len(xs))
    IN  InterpAt(SortByY(sub, Len(sub)), y_interpolate)

\* xarray + energy_offset: the numpy scalar turns the list into an array and
\* is added to every element
RECURSIVE ShiftedUpTo(_, _, _)
ShiftedUpTo(xs, d, n) ==
    IF n = 0 THEN <<>> ELSE Append(ShiftedUpTo(xs, d, n - 1), xs[n] + d)

OffsetOfMutSwapped(ref, target) == target - ref

\* line 214
OffsetOf(ref, target) == ref - target

\* lines 208-214: the two leading energies and their difference; a series
\* that does not bracket y_interpolate ends the script with ValueError
ComputeOffset ==
    /\ cal_pc = "leading"
    /\ LET t == LeadingEnergy(xarray, yarray)
           r == LeadingEnergy(xarray_ref, yarray_ref)
       IN  IF ~t.ok
           THEN /\ cal_pc' = "raised"
                /\ UNCHANGED <<leading_energy_target, leading_energy_ref, energy_offset>>
           ELSE IF ~r.ok
           THEN /\ cal_pc' = "raised"
                /\ leading_energy_target' = t.val
                /\ UNCHANGED <<leading_energy_ref, energy_offset>>
           ELSE /\ cal_pc' = "correct"
                /\ leading_energy_target' = t.val
                /\ leading_energy_ref' = r.val
                /\ energy_offset' = OffsetOf(r.val, t.val)
    /\ UNCHANGED <<xarray, yarray, xarray_ref, yarray_ref, xarray_corr>>
    /\ UNCHANGED notCal

\* line 223: xarray_corr = xarray + energy_offset
ApplyCorrection ==
    /\ cal_pc = "correct"
    /\ xarray_corr' = ShiftedUpTo(xarray, energy_offset, Len(xarray))
    /\ cal_pc' = "plot"
    /\ UNCHANGED <<xarray, yarray, xarray_ref, yarray_ref, leading_energy_target,
                   leading_energy_ref, energy_offset>>
    /\ UNCHANGED notCal

InitCal ==
    /\ OnlyCalRuns
    /\ cal_pc = "leading"
    /\ yarray \in [1..NumSamples -> YLevels]
    /\ yarray_ref \in {f \in [1..NumSamples -> YLevels] :
                          \A i \in 1..(NumSamples - 1) : f[i] >= f[i + 1]}
    /\ \E shift \in 0..MaxShift : xarray = EnergiesUpTo(NumSamples, shift, NumSamples)
    /\ xarray_ref = EnergiesUpTo(NumSamples, 0, NumSamples)
    /\ leading_energy_target = 0
    /\ leading_energy_ref = 0
    /\ energy_offset = 0
    /\ xarray_corr = <<>>

NextCal == ComputeOffset \/ ApplyCorrection

SpecCal == InitCal /\ [][NextCal]_vars

\* C14: once the correction is applied, the corrected series has the
\* intensities of the target at energies shifted by energy_offset, and its
\* leading energy at y_interpolate is the leading energy of the reference.
C14_CorrectionAlignsLeadingEnergies ==
    cal_pc = "plot" =>
        /\ energy_offset = leading_energy_ref - leading_energy_target
        /\ Len(xarray_corr) = Len(xarray)
        /\ \A i \in 1..Len(xarray) : xarray_corr[i] - xarray[i] = energy_offset
        /\ LeadingEnergy(xarray_corr, yarray).ok
        /\ LeadingEnergy(xarray_corr, yarray).val = leading_energy_ref

\* C14 witness: the two edges are apart, the target's leading energy lies
\* between two of its points, and the correction has been applied
C14_Witness ==
    /\ cal_pc = "plot"
    /\ energy_offset # 0
    /\ \A i \in 1..Len(xarray) : xarray[i] # leading_energy_target
    /\ \E i \in 1..Len(yarray) : yarray[i] < y_interpolate /\ yarray[i] > y_interpolate_min
    /\ yarray # yarray_ref

-----------------------------------------------------------------------------
(* pdf_data.py: continuity of the detector segments *)

\* lines 88 and 128: range(1, 8)
FirstSegment == 1
LastSegment == 7
\* line 131
default_overlap_end == 60

\* A float is a fraction n/d in lowest terms with d > 0; the non-finite
\* values of the arithmetic are inf = 1/0, -inf = -1/0 and nan = 0/0.
RECURSIVE Gcd(_, _)
Gcd(a, b) == IF b = 0 THEN a ELSE Gcd(b, a % b)

Sign(n) == IF n > 0 THEN 1 ELSE IF n < 0 THEN -1 ELSE 0

Frac(n, d) ==
    IF d = 0 THEN [n |-> Sign(n), d |-> 0]
    ELSE LET s == IF d < 0 THEN -1 ELSE 1
             g == Gcd(Abs(n), Abs(d))
         IN  [n |-> (s * n) \div g, d |-> (s * d) \div g]

Whole(k) == [n |-> k, d |-> 1]
NaN == [n |-> 0, d |-> 0]
IsNaN(a) == a.d = 0 /\ a.n = 0
IsFinite(a) == a.d # 0

FMul(a, b) == Frac(a.n * b.n, a.d * b.d)

\* the divisors of the script are never negative, so x/0 has the sign of x
FDiv(a, b) == Frac(a.n * b.d, a.d * b.n)

FAdd(a, b) ==
    IF IsNaN(a) \/ IsNaN(b) THEN NaN
    ELSE IF a.d = 0 /\ b.d = 0 THEN (IF a.n = b.n THEN a ELSE NaN)
    ELSE IF a.d = 0 THEN a
    ELSE IF b.d = 0 THEN b
    ELSE Frac(a.n * b.d + b.n * a.d, a.d * b.d)

FNeg(a) == [n |-> -a.n, d |-> a.d]
FSub(a, b) == FAdd(a, FNeg(b))

\* ==: nan equals nothing
FEq(a, b) == ~IsNaN(a) /\ ~IsNaN(b) /\ a = b

\* The segments of the data file.  Segment i spans 8(i-1) .. 8i+4 degrees
\* and so shares 4 degrees with each neighbour; with narrow = m the
\* segment m is a short one that its two neighbours cover entirely.
SegmentThetas(i, narrow) ==
    IF i = narrow
    THEN (IF i = LastSegment THEN <<68, 72>> ELSE <<8 * i - 8, 8 * i - 4>>)
    ELSE IF i = narrow + 1 THEN <<8 * i - 16, 8 * i + 4>>
    ELSE <<8 * i - 8, 8 * i + 4>>

CountColumns == [1..2 -> 0..MaxCount]
Flat == <<1, 1>>

\* the sheets in which the segment k holds a column of first, the segment
\* k + 1 a column of second, and the other segments the constant 1
SheetsVaryingAt(k, first, second) ==
    {[i \in FirstSegment..LastSegment |->
         IF i = k THEN p ELSE IF i = k + 1 THEN q ELSE Flat] :
       p \in first, q \in second}

\* Series.max() and Series.min() of a Twotheta column
ColumnMax(col) == CHOOSE v \in {col[j] : j \in 1..Len(col)} :
                      \A j \in 1..Len(col) : col[j] <= v
ColumnMin(col) == CHOOSE v \in {col[j] : j \in 1..Len(col)} :
                      \A j \in 1..Len(col) : col[j] >= v

\* 0.5 * (a + b); the angles of the sheets are even numbers of degrees
Half(a, b) == (a + b) \div 2

\* np.interp(at, xp, fp): the end values outside the column, the value of
\* the chord inside
NpInterp(at, xp, fp) ==
    IF at <= xp[1] THEN Whole(fp[1])
    ELSE IF at >= xp[Len(xp)] THEN Whole(fp[Len(fp)])
    ELSE LET j == CHOOSE k \in 1..(Len(xp) - 1) : xp[k] <= at /\ at < xp[k + 1]
         IN  FAdd(Whole(fp[j]),
                  Frac((fp[j + 1] - fp[j]) * (at - xp[j]), xp[j + 1] - xp[j]))

\* lines 130-142 for segment i
OverlapStart(i) ==
    IF i >= 2 THEN Half(ColumnMax(twotheta[i - 1]), ColumnMin(twotheta[i]))
    ELSE 0

OverlapEnd(i) ==
    IF i <= 6 THEN Half(ColumnMax(twotheta[i]), ColumnMin(twotheta[i + 1]))
    ELSE default_overlap_end

\* line 144
OverlapNonEmpty(i) == i >= 2 /\ OverlapStart(i) < OverlapEnd(i)

ScaleOfMutInverted(prev, count1, count2) == FDiv(FMul(prev, count2), count1)

\* line 152
ScaleOf(prev, count1, count2) == FDiv(FMul(prev, count1), count2)

\* lines 166-170
OffsetBkgOf(prev_off, prev_scale, count1_bkg, this_scale, count2_bkg) ==
    FSub(FAdd(prev_off, FMul(prev_scale, count1_bkg)),
         FMul(this_scale, count2_bkg))

\* lines 100-102: the plotted intensity
ScaledCount(count, scale, offset) == FAdd(FMul(count, scale), offset)

\* lines 128-170: one iteration of the loop
ScaleSegment ==
    /\ pdf_pc = "scale"
    /\ pdf_i <= LastSegment
    /\ LET i == pdf_i
           overlap_start == OverlapStart(i)
           overlap_end == OverlapEnd(i)
       IN  IF OverlapNonEmpty(i)
           THEN LET count1_interp == NpInterp(overlap_start, twotheta[i - 1], raw_count[i - 1])
                    count2_interp == NpInterp(overlap_start, twotheta[i], raw_count[i])
                    count1_bkg_interp == NpInterp(overlap_start, twotheta[i - 1], bkg_count[i - 1])
                    count2_bkg_interp == NpInterp(overlap_start, twotheta[i], bkg_count[i])
                    s == ScaleOf(scale_factors[i - 1], count1_interp, count2_interp)
                IN  /\ scale_factors' = [scale_factors EXCEPT ![i] = s]
                    /\ x_range' = [x_range EXCEPT ![i] = <<overlap_start, overlap_end>>]
                    /\ offset_bkg_factors' =
                         [offset_bkg_factors EXCEPT ![i] =
                            OffsetBkgOf(offset_bkg_factors[i - 1], scale_factors[i - 1],
                                        count1_bkg_interp, s, count2_bkg_interp)]
           ELSE /\ x_range' = [x_range EXCEPT ![i] = <<0, default_overlap_end>>]
                /\ UNCHANGED <<scale_factors, offset_bkg_factors>>
    /\ pdf_i' = pdf_i + 1
    /\ UNCHANGED <<pdf_pc, twotheta, raw_count, bkg_count>>
    /\ UNCHANGED notPdfData

\* the loop of line 128 is over
ScaleDone ==
    /\ pdf_pc = "scale"
    /\ pdf_i > LastSegment
    /\ pdf_pc' = "plot"
    /\ UNCHANGED <<pdf_i, twotheta, raw_count, bkg_count, scale_factors,
                   offset_bkg_factors, x_range>>
    /\ UNCHANGED notPdfData

InitPdfData ==
    /\ OnlyPdfDataRuns
    /\ pdf_pc = "scale"
    /\ pdf_i = FirstSegment
    /\ \E k \in FirstSegment..(LastSegment - 1) :
         /\ \E narrow \in {0, k + 1} :
              twotheta = [i \in FirstSegment..LastSegment |-> SegmentThetas(i, narrow)]
         /\ raw_count \in SheetsVaryingAt(k, CountColumns, CountColumns)
         /\ bkg_count \in SheetsVaryingAt(k, {Flat}, CountColumns)
    /\ scale_factors = [i \in 0..LastSegment |-> Whole(1)]
    /\ offset_bkg_factors = [i \in 0..LastSegment |-> Whole(0)]
    /\ x_range = [i \in 0..LastSegment |-> <<0, 0>>]

NextPdfData == ScaleSegment \/ ScaleDone

SpecPdfData == InitPdfData /\ [][NextPdfData]_vars

\* the segments the loop has handled
Handled(i) == pdf_pc \in {"scale", "plot"} /\ i >= 2 /\ i < pdf_i

RawAtJunction(i, j) == NpInterp(OverlapStart(j), twotheta[i], raw_count[i])
BkgAtJunction(i, j) == NpInterp(OverlapStart(j), twotheta[i], bkg_count[i])

ContinuousAt(i) ==
    /\ FEq(ScaledCount(RawAtJunction(i, i), scale_factors[i], Whole(0)),
           ScaledCount(RawAtJunction(i - 1, i), scale_factors[i - 1], Whole(0)))
    /\ FEq(ScaledCount(BkgAtJunction(i, i), scale_factors[i], offset_bkg_factors[i]),
           ScaledCount(BkgAtJunction(i - 1, i), scale_factors[i - 1],
                       offset_bkg_factors[i - 1]))

\* C15 as stated: every handled segment with a non-empty overlap joins its
\* predecessor continuously at the junction, in the raw data and, with the
\* offsets, in the background.
C15_SegmentsContinuousAtJunction ==
    \A i \in 2..LastSegment :
        Handled(i) /\ OverlapNonEmpty(i) => ContinuousAt(i)

\* C15, amended: the same for the segments whose raw intensity at the
\* junction is not zero and whose predecessor has a finite scale factor.
C15_SegmentsContinuousWhereScaleExists ==
    \A i \in 2..LastSegment :
        /\ Handled(i)
        /\ OverlapNonEmpty(i)
        /\ RawAtJunction(i, i) # Whole(0)
        /\ IsFinite(scale_factors[i - 1])
        => ContinuousAt(i)

\* C15 witness: the loop is over; some segment got a scale factor other
\* than 1 and a background offset other than 0, and another was left alone
\* because its overlap is empty
C15_Witness ==
    /\ pdf_pc = "plot"
    /\ \E i \in 2..LastSegment :
         /\ OverlapNonEmpty(i)
         /\ RawAtJunction(i, i) # Whole(0)
         /\ IsFinite(scale_factors[i])
         /\ scale_factors[i] # Whole(1)
         /\ IsFinite(offset_bkg_factors[i])
         /\ offset_bkg_factors[i] # Whole(0)
    /\ \E i \in 2..LastSegment : ~OverlapNonEmpty(i)

-----------------------------------------------------------------------------
(* Every script: load, plot, save *)

\* The calls of a script that read an input, draw on the figure, write the
\* PNG or open the window, in the order the module body reaches them, each
\* with its line.  A loop over a list written in the script is unrolled; a
\* loop over the rows of the data is entered once.
RECURSIVE Repeat(_, _)
Repeat(body, n) == IF n = 0 THEN <<>> ELSE body \o Repeat(body, n - 1)

ProgramCvCurveMutPlotAfterSave ==
    <<<<"read", 64>>, <<"save", 81>>, <<"plot", 72>>, <<"show", 84>>>>

ProgramCvCurve ==
    <<<<"read", 64>>, <<"plot", 72>>, <<"save", 81>>, <<"show", 84>>>>

ProgramLatticeStrain ==
    <<<<"read", 63>>, <<"read", 68>>, <<"plot", 145>>, <<"plot", 151>>,
      <<"plot", 165>>, <<"plot", 178>>, <<"save", 221>>, <<"show", 222>>>>

ProgramParticleSize ==
    <<<<"read", 64>>, <<"read", 69>>, <<"plot", 142>>, <<"plot", 148>>,
      <<"plot", 162>>, <<"plot", 175>>, <<"plot", 188>>, <<"save", 230>>,
      <<"show", 231>>>>

ProgramEnergyCalibration ==
    <<<<"read", 180>>, <<"read", 187>>, <<"read", 190>>, <<"plot", 230>>,
      <<"plot", 239>>, <<"plot", 248>>, <<"plot", 257>>, <<"save", 300>>,
      <<"show", 302>>>>

\* file_path_list of lines 134-139 holds four files
ProgramHaxpesPt4f ==
    Repeat(<<<<"read", 162>>, <<"plot", 185>>>>, 4)
        \o <<<<"save", 227>>, <<"show", 228>>>>

\* file_path_list of lines 68-73 holds four files
ProgramHaxpesVb ==
    Repeat(<<<<"read", 95>>, <<"plot", 111>>>>, 4)
        \o <<<<"save", 159>>, <<"show", 161>>>>

ProgramPdfGr ==
    <<<<"read", 63>>, <<"plot", 71>>, <<"save", 90>>, <<"show", 93>>>>

ProgramPdfSq ==
    <<<<"read", 61>>, <<"plot", 69>>, <<"save", 88>>, <<"show", 91>>>>

ProgramPdfData ==
    <<<<"read", 61>>, <<"read", 62>>, <<"read", 63>>, <<"plot", 173>>,
      <<"plot", 176>>, <<"plot", 184>>, <<"save", 201>>, <<"show", 202>>>>

ProgramPdfTrFit ==
    <<<<"read", 121>>, <<"plot", 236>>, <<"plot", 249>>, <<"plot", 278>>,
      <<"save", 298>>, <<"show", 299>>>>

ProgramSaxsMcsasProfile ==
    <<<<"read", 83>>, <<"plot", 99>>, <<"plot", 113>>, <<"save", 179>>,
      <<"show", 182>>>>

ProgramSaxsMcsasRadius ==
    <<<<"read", 61>>, <<"plot", 83>>, <<"plot", 91>>, <<"plot", 94>>,
      <<"plot", 123>>, <<"save", 145>>, <<"show", 148>>>>

\* files of lines 99-109 holds three files
ProgramSaxsProfile ==
    Repeat(<<<<"read", 120>>, <<"plot", 124>>>>, 3)
        \o <<<<"save", 164>>, <<"show", 165>>>>

ProgramXafsChik ==
    <<<<"read", 75>>, <<"plot", 91>>, <<"save", 107>>, <<"show", 110>>>>

ProgramXafsChikFit ==
    <<<<"read", 81>>, <<"plot", 100>>, <<"plot", 105>>, <<"save", 125>>,
      <<"show", 128>>>>

ProgramXafsChir ==
    <<<<"read", 75>>, <<"plot", 91>>, <<"save", 106>>, <<"show", 109>>>>

ProgramXafsChirFit ==
    <<<<"read", 77>>, <<"plot", 96>>, <<"plot", 101>>, <<"save", 120>>,
      <<"show", 123>>>>

ProgramXafsNorm ==
    <<<<"read", 75>>, <<"plot", 91>>, <<"save", 111>>, <<"show", 114>>>>

ProgramXrdData1 ==
    <<<<"read", 116>>, <<"read", 119>>, <<"plot", 136>>, <<"plot", 137>>,
      <<"plot", 143>>, <<"save", 198>>, <<"show", 201>>>>

ProgramXrdData2 ==
    <<<<"read", 64>>, <<"read", 65>>, <<"read", 66>>, <<"plot", 114>>,
      <<"plot", 117>>, <<"plot", 122>>, <<"plot", 128>>, <<"plot", 141>>,
      <<"plot", 180>>, <<"plot", 183>>, <<"plot", 186>>, <<"save", 205>>,
      <<"show", 206>>>>

AllScripts ==
    {"cv_curve", "fcbenten_lattice_strain", "fcbenten_particle_size",
     "haxpes_energy_calibration", "haxpes_pt4f", "haxpes_vb", "pdf_Gr",
     "pdf_sq", "pdf_data", "pdf_tr_fit", "saxs_mcsas_profile",
     "saxs_mcsas_radius", "saxs_profile", "xafs_chik", "xafs_chik_fit",
     "xafs_chir", "xafs_chir_fit", "xafs_norm", "xrd_data1", "xrd_data2"}

Program(name) ==
    CASE name = "cv_curve" -> ProgramCvCurve
      [] name = "fcbenten_lattice_strain" -> ProgramLatticeStrain
      [] name = "fcbenten_particle_size" -> ProgramParticleSize
      [] name = "haxpes_energy_calibration" -> ProgramEnergyCalibration
      [] name = "haxpes_pt4f" -> ProgramHaxpesPt4f
      [] name = "haxpes_vb" -> ProgramHaxpesVb
      [] name = "pdf_Gr" -> ProgramPdfGr
      [] name = "pdf_sq" -> ProgramPdfSq
      [] name = "pdf_data" -> ProgramPdfData
      [] name = "pdf_tr_fit" -> ProgramPdfTrFit
      [] name = "saxs_mcsas_profile" -> ProgramSaxsMcsasProfile
      [] name = "saxs_mcsas_radius" -> ProgramSaxsMcsasRadius
      [] name = "saxs_profile" -> ProgramSaxsProfile
      [] name = "xafs_chik" -> ProgramXafsChik
      [] name = "xafs_chik_fit" -> ProgramXafsChikFit
      [] name = "xafs_chir" -> ProgramXafsChir
      [] name = "xafs_chir_fit" -> ProgramXafsChirFit
      [] name = "xafs_norm" -> ProgramXafsNorm
      [] name = "xrd_data1" -> ProgramXrdData1
      [] OTHER -> ProgramXrdData2

\* the next call of the running script is of the given kind
NextCallIs(kind) ==
    /\ order_state = "running"
    /\ order_pc <= Len(Program(order_script))
    /\ Program(order_script)[order_pc][1] = kind

\* the call returns
CallReturns(kind) ==
    /\ events' = Append(events, kind)
    /\ order_pc' = order_pc + 1
    /\ UNCHANGED <<order_state, order_script>>
    /\ UNCHANGED notOrder

\* open, read_csv, read_excel, ExcelFile and the functions built on them
ReadInput == NextCallIs("read") /\ CallReturns("read")

\* plot, errorbar, bar, scatter, fill_between, annotate
PlotSeries == NextCallIs("plot") /\ CallReturns("plot")

\* plt.savefig
SavePng == NextCallIs("save") /\ CallReturns("save")

\* plt.show
ShowWindow == NextCallIs("show") /\ CallReturns("show")

\* the call, or the code before it, raises: nothing of the script runs
\* afterwards (pdf_tr_fit prints the error and ends)
CallRaises ==
    /\ order_state = "running"
    /\ order_pc <= Len(Program(order_script))
    /\ order_state' = "raised"
    /\ UNCHANGED <<order_script, order_pc, events>>
    /\ UNCHANGED notOrder

\* the end of the module body
ScriptEnds ==
    /\ order_state = "running"
    /\ order_pc > Len(Program(order_script))
    /\ order_state' = "done"
    /\ UNCHANGED <<order_script, order_pc, events>>
    /\ UNCHANGED notOrder

InitOrder ==
    /\ OnlyOrderRuns
    /\ order_state = "running"
    /\ order_script \in AllScripts
    /\ order_pc = 1
    /\ events = <<>>

NextOrder ==
    ReadInput \/ PlotSeries \/ SavePng \/ ShowWindow \/ CallRaises \/ ScriptEnds

SpecOrder == InitOrder /\ [][NextOrder]_vars

Saves == {i \in 1..Len(events) : events[i] = "save"}

\* C16: the PNG is written at most once, exactly once in a run that reaches
\* the end of the script, and every read and every plot of the run comes
\* before the save.
C16_PngWrittenOnceAfterReadsAndPlots ==
    /\ Cardinality(Saves) <= 1
    /\ order_state = "done" => Cardinality(Saves) = 1
    /\ \A i \in Saves : \A j \in 1..Len(events) :
           events[j] \in {"read", "plot"} => j < i

\* C16 witness: a script that reads four files in a loop has ended
C16_Witness ==
    /\ order_state = "done"
    /\ order_script = "haxpes_pt4f"
    /\ Cardinality({j \in 1..Len(events) : events[j] = "read"}) = 4
    /\ Cardinality({j \in 1..Len(events) : events[j] = "plot"}) = 4
    /\ Saves = {9}

-----------------------------------------------------------------------------
(* xafs_chir.py: the curve and the window *)

\* a data line of the input file: the radial distance (parts[0]), the
\* magnitude of chi(R) (parts[3]) and the value of the window function,
\* win = 1 standing for 1.0
ChirRow(dist, mag, win) == [dist |-> dist, mag |-> mag, win |-> win]

\* the files of n data lines, the radial distances XStep apart
ChirFilesOfLen(n) ==
    {[j \in 1..n |-> ChirRow(j * XStep, f[j][1], f[j][2])] :
       f \in [1..n -> (0..MaxI) \X {0, 1}]}

ChirFiles == UNION {ChirFilesOfLen(n) : n \in 0..NumSamples}

\* lines 77-87 for one data line: parts[0] and parts[3] are kept; the
\* window column is not read
ChirReadLine ==
    /\ chir_pc = "read"
    /\ chir_line <= Len(chir_rows)
    /\ r_values' = Append(r_values, chir_rows[chir_line].dist)
    /\ chir_values' = Append(chir_values, chir_rows[chir_line].mag)
    /\ chir_line' = chir_line + 1
    /\ UNCHANGED <<chir_pc, chir_rows, plotted_curve, window_marks>>
    /\ UNCHANGED notChir

\* line 77: the file is exhausted
ChirEndOfFile ==
    /\ chir_pc = "read"
    /\ chir_line > Len(chir_rows)
    /\ chir_pc' = "plot"
    /\ UNCHANGED <<chir_rows, chir_line, r_values, chir_values, plotted_curve,
                   window_marks>>
    /\ UNCHANGED notChir

\* lines 90-103: the one drawing call is plt.plot(r, chir); labels, grid
\* and limits follow, no marker is drawn
ChirPlot ==
    /\ chir_pc = "plot"
    /\ plotted_curve' = [j \in 1..Len(r_values) |-> <<r_values[j], chir_values[j]>>]
    /\ chir_pc' = "save"
    /\ UNCHANGED <<chir_rows, chir_line, r_values, chir_values, window_marks>>
    /\ UNCHANGED notChir

\* lines 105-109
ChirSave ==
    /\ chir_pc = "save"
    /\ chir_pc' = "done"
    /\ UNCHANGED <<chir_rows, chir_line, r_values, chir_values, plotted_curve,
                   window_marks>>
    /\ UNCHANGED notChir

InitChir ==
    /\ OnlyChirRuns
    /\ chir_pc = "read"
    /\ chir_rows \in ChirFiles
    /\ chir_line = 1
    /\ r_values = <<>>
    /\ chir_values = <<>>
    /\ plotted_curve = <<>>
    /\ window_marks = {}

NextChir == ChirReadLine \/ ChirEndOfFile \/ ChirPlot \/ ChirSave

SpecChir == InitChir /\ [][NextChir]_vars

\* the radial distances at which the window of the file is 1.0
WindowOpen == {chir_rows[j].dist : j \in {k \in 1..Len(chir_rows) : chir_rows[k].win = 1}}

\* C17: once the figure is drawn, the first and the last radial distance
\* at which the window function is 1.0 are marked on it.
C17_WindowEndsAreMarked ==
    chir_pc \in {"save", "done"} /\ WindowOpen # {} =>
        /\ \E lo \in WindowOpen : (\A d \in WindowOpen : lo <= d) /\ lo \in window_marks
        /\ \E hi \in WindowOpen : (\A d \in WindowOpen : hi >= d) /\ hi \in window_marks

-----------------------------------------------------------------------------
(* fcbenten_lattice_strain.py and fcbenten_particle_size.py: transitions *)

TransitionScripts == {"fcbenten_lattice_strain", "fcbenten_particle_size"}

\* line 78 (75 in fcbenten_particle_size.py)
pt_co_samples == <<"TEC35V31E", "TEC36E52", "TEC36F52">>

\* the sample names of the sheets: one Pt sample, one Pt-Co sample
SampleNames == {"TEC10E50E", "TEC36F52"}
Pretreatments == {"AsMade", "H", "EC"}

\* a row of the sheet; its measurements are told apart by the row number
SheetRow(name, pre, k) ==
    [Sample |-> name, pretreatment |-> pre,
     SAXS_d |-> 10 * k, XRD_ws |-> k, XRD_sd |-> 100 + k]

SheetsOfLen(n) ==
    {[k \in 1..n |-> SheetRow(f[k][1], f[k][2], k)] :
       f \in [1..n -> SampleNames \X Pretreatments]}

Sheets == UNION {SheetsOfLen(n) : n \in 0..MaxRows}

\* df["Sample"].unique(): the names in the order of their first row
RECURSIVE UniqueUpTo(_, _)
UniqueUpTo(rows, n) ==
    IF n = 0 THEN <<>>
    ELSE LET before == UniqueUpTo(rows, n - 1)
         IN  IF \E j \in 1..Len(before) : before[j] = rows[n].Sample
             THEN before
             ELSE Append(before, rows[n].Sample)

UniqueSamples(rows) == UniqueUpTo(rows, Len(rows))

\* line 79 (76): the samples that are not Pt-Co samples
RECURSIVE PtSamplesUpTo(_, _)
PtSamplesUpTo(names, n) ==
    IF n = 0 THEN <<>>
    ELSE IF \E j \in 1..Len(pt_co_samples) : pt_co_samples[j] = names[n]
         THEN PtSamplesUpTo(names, n - 1)
         ELSE Append(PtSamplesUpTo(names, n - 1), names[n])

pt_samples(rows) == PtSamplesUpTo(UniqueSamples(rows), Len(UniqueSamples(rows)))

\* subset["pretreatment"] of a sample
PretreatmentsOf(rows, name) ==
    {rows[k].pretreatment : k \in {j \in 1..Len(rows) : rows[j].Sample = name}}

\* the test of line 124 (121)
HasAllThree(rows, name) == {"AsMade", "H", "EC"} \subseteq PretreatmentsOf(rows, name)

\* .values[0] of the rows of a sample with a pretreatment: the first of them
FirstRow(rows, name, pre) ==
    LET k == CHOOSE j \in 1..Len(rows) :
                 /\ rows[j].Sample = name
                 /\ rows[j].pretreatment = pre
                 /\ \A m \in 1..(j - 1) :
                      ~(rows[m].Sample = name /\ rows[m].pretreatment = pre)
    IN  rows[k]

\* lines 129-131 (126-128): SAXS_d against XRD_ws, or against XRD_sd
PointOf(row, name) ==
    IF name = "fcbenten_lattice_strain" THEN <<row.SAXS_d, row.XRD_ws>>
    ELSE <<row.SAXS_d, row.XRD_sd>>

TransitionArrowsMutChained(p0, p1, p2) ==
    <<[xytext |-> p0, xy |-> p1], [xytext |-> p1, xy |-> p2]>>

\* lines 145-162 (142-159): the two ax.annotate calls
TransitionArrows(p0, p1, p2) ==
    <<[xytext |-> p0, xy |-> p1], [xytext |-> p0, xy |-> p2]>>

Tagged(name, items) == [j \in 1..Len(items) |-> [Sample |-> name, item |-> items[j]]]

\* lines 78-117 (75-114): the styles; with no Pt sample in the sheet line
\* 109 (106) divides by zero
PrepareStyles ==
    /\ tr_pc = "styles"
    /\ IF Len(pt_samples(tr_rows)) = 0
       THEN tr_pc' = "raised" /\ UNCHANGED todo
       ELSE tr_pc' = "loop" /\ todo' = UniqueSamples(tr_rows)
    /\ UNCHANGED <<tr_script, tr_rows, has_width, drawn_arrows, drawn_points,
                   drawn_errorbars>>
    /\ UNCHANGED notTransition

\* one iteration of the loop of line 122 (119) for a sample that has the
\* three pretreatments
DrawSample ==
    /\ tr_pc = "loop"
    /\ todo # <<>>
    /\ HasAllThree(tr_rows, Head(todo))
    /\ LET name == Head(todo)
           p0 == PointOf(FirstRow(tr_rows, name, "AsMade"), tr_script)
           p1 == PointOf(FirstRow(tr_rows, name, "H"), tr_script)
           p2 == PointOf(FirstRow(tr_rows, name, "EC"), tr_script)
       IN  /\ drawn_arrows' = drawn_arrows \o Tagged(name, TransitionArrows(p0, p1, p2))
           /\ drawn_points' = drawn_points \o Tagged(name, <<p0, p1, p2>>)
           /\ drawn_errorbars' =
                IF has_width THEN drawn_errorbars \o Tagged(name, <<p0>>)
                ELSE drawn_errorbars
    /\ todo' = Tail(todo)
    /\ UNCHANGED <<tr_pc, tr_script, tr_rows, has_width>>
    /\ UNCHANGED notTransition

\* one iteration for a sample that lacks a pretreatment
SkipSample ==
    /\ tr_pc = "loop"
    /\ todo # <<>>
    /\ ~HasAllThree(tr_rows, Head(todo))
    /\ todo' = Tail(todo)
    /\ UNCHANGED <<tr_pc, tr_script, tr_rows, has_width, drawn_arrows,
                   drawn_points, drawn_errorbars>>
    /\ UNCHANGED notTransition

\* the loop is over
LoopOver ==
    /\ tr_pc = "loop"
    /\ todo = <<>>
    /\ tr_pc' = "save"
    /\ UNCHANGED <<tr_script, tr_rows, has_width, todo, drawn_arrows,
                   drawn_points, drawn_errorbars>>
    /\ UNCHANGED notTransition

InitTransition ==
    /\ OnlyTransitionRuns
    /\ tr_pc = "styles"
    /\ tr_script \in TransitionScripts
    /\ tr_rows \in Sheets
    /\ has_width \in BOOLEAN
    /\ todo = <<>>
    /\ drawn_arrows = <<>>
    /\ drawn_points = <<>>
    /\ drawn_errorbars = <<>>

NextTransition == PrepareStyles \/ DrawSample \/ SkipSample \/ LoopOver

SpecTransition == InitTransition /\ [][NextTransition]_vars

ItemsOf(drawn, name) == {j \in 1..Len(drawn) : drawn[j].Sample = name}

=============================================================================
